---------------------------- MODULE Spec2Model ----------------------------
(***************************************************************************)
(* A model of the screen-capture pipeline of AirCodum's extension host:    *)
(* the process-wide ScreenCaptureManager and the per-client                 *)
(* VSCodeVNCConnection of src/extension/src/websockets.ts, the latter with  *)
(* its subscription to frames and its dispatch of inbound messages to the   *)
(* robot, the quality settings, the command handler, the file upload and    *)
(* the chat.                                                                *)
(*                                                                         *)
(* One step of the model is one turn of the Node.js event loop: a public   *)
(* call, a timer callback, or the continuation of an await, each run to    *)
(* its next await.  Wall-clock readings are abstracted to the two facts    *)
(* the code tests: whether MIN_FRAME_INTERVAL has elapsed since the last   *)
(* publish (lastFrameSentTime) and whether PERFORMANCE_CHECK_INTERVAL has  *)
(* elapsed since the last check (lastPerformanceCheck).  A timer that is   *)
(* armed may fire at any later step.                                       *)
(*                                                                         *)
(* A definition described as a "fault" is not part of the program: it is a *)
(* handler with one plausible defect, kept next to the handler it varies   *)
(* to show that the properties at the end distinguish the two.             *)
(***************************************************************************)
EXTENDS Integers, Sequences, FiniteSets, TLC

(***************************************************************************)
(* Bounds of the model.                                                    *)
(***************************************************************************)
\* client connections (each WebSocket object connects once)
NumConns == 2
\* screenshots taken in one run
MaxCaptures == 2
\* length in bytes of a raw screenshot buffer
FrameLen == 64
\* consecutive adjustment cycles with slow encodes
MaxCycles == 7
\* calls of handleCommand, handleFileUpload and chatWithOpenAI that one
\* client has pending at a time
MaxCalls == 1
\* the adjustment cycles of a run of SpecAdjust
MaxAdjustments == 3

(***************************************************************************)
(* Program constants.                                                      *)
(***************************************************************************)
COALESCE_MAX_WAIT == 100
MIN_FRAME_INTERVAL == 33
MIN_QUALITY == 80
MAX_QUALITY == 90
MIN_WIDTH == 1024
MAX_WIDTH == 1920
MIN_FPS == 1
MAX_FPS == 60
PERFORMANCE_CHECK_INTERVAL == 2000
\* capacity of frameProcessingTimes
PerformanceWindow == 30
\* samples taken by calculateFrameHash
HashSamples == 32
\* samples inspected by detectHighMotion
MotionSamples == 5
\* robot.getScreenSize()
ScreenWidth == 1920
ScreenHeight == 1080
\* the initial quality settings
DefaultWidth == 1440
DefaultJpegQuality == 85
DefaultFps == 45
\* the steps of adjustQualityIfNeeded and processFrame
DegradeQualityStep == 5
DegradeWidthStep == 128
ImproveQualityStep == 1
ImproveWidthStep == 64
MotionQualityStep == 10

Conns == 1..NumConns

Max(a, b) == IF a >= b THEN a ELSE b
Min(a, b) == IF a <= b THEN a ELSE b

RECURSIVE Sum(_)
Sum(s) == IF s = <<>> THEN 0 ELSE Head(s) + Sum(Tail(s))

\* Array.prototype.filter((cb) => cb !== callback)
RECURSIVE Without(_, _)
Without(s, c) ==
  IF s = <<>> THEN <<>>
  ELSE IF Head(s) = c THEN Without(Tail(s), c)
       ELSE <<Head(s)>> \o Without(Tail(s), c)

(***************************************************************************)
(* Raw screenshots.  A buffer is a sequence of bytes; buffer[k] of the     *)
(* code (0-based) is buf[k + 1] here.  ScreenB differs from ScreenA only   *)
(* in a byte the hash does not sample, ScreenC in a byte that it samples.   *)
(***************************************************************************)
ScreenA == [i \in 1..FrameLen |-> 0]
ScreenB == [i \in 1..FrameLen |-> IF i = 1 THEN 255 ELSE 0]
ScreenC == [i \in 1..FrameLen |-> IF i = 2 THEN 255 ELSE 0]
Screens == <<ScreenA, ScreenB, ScreenC>>
Contents == DOMAIN Screens

\* buffer[k]; a read past the end is undefined and is stored in the
\* Uint8Array as 0
ByteAt(buf, k) == IF k + 1 \in DOMAIN buf THEN buf[k + 1] ELSE 0

\* fault: the digest is taken over the whole buffer
hashWholeFrame(buf) == buf

\* calculateFrameHash: the digest of 32 evenly spaced samples.  MD5 is taken
\* to be collision-free, so the digest is represented by the samples hashed.
calculateFrameHash(buf) ==
  LET step == Len(buf) \div HashSamples
      offset == step \div 2
  IN [i \in 1..HashSamples |-> ByteAt(buf, offset + (i - 1) * step)]

\* lastFrameHash = null
NullHash == <<>>

(***************************************************************************)
(* Quality settings.                                                       *)
(***************************************************************************)
\* getScaledDimensions: Math.floor(width * (realHeight / realWidth)); the
\* quotient 1080 / 1920 = 0.5625 is exact in binary floating point
getScaledDimensions(q) ==
  [width |-> q.width, height |-> (q.width * ScreenHeight) \div ScreenWidth]

DefaultQuality ==
  [width |-> DefaultWidth, jpegQuality |-> DefaultJpegQuality, fps |-> DefaultFps]

\* getAverageProcessingTime() > bound, for bound = num / den
AverageAbove(times, num, den) ==
  /\ times # <<>>
  /\ den * Sum(times) > num * Len(times)

\* getAverageProcessingTime() < bound, for bound = num / den (0 when empty)
AverageBelow(times, num, den) ==
  IF times = <<>> THEN 0 < num
  ELSE den * Sum(times) < num * Len(times)

\* detectHighMotion: mean of the last 5 samples above MIN_FRAME_INTERVAL * 0.7
detectHighMotion(times) ==
  /\ Len(times) >= MotionSamples
  /\ AverageAbove(SubSeq(times, Len(times) - MotionSamples + 1, Len(times)),
                  7 * MIN_FRAME_INTERVAL, 10)

\* isProcessingSlow: mean above MIN_FRAME_INTERVAL * 0.8
isProcessingSlow(times) == AverageAbove(times, 8 * MIN_FRAME_INTERVAL, 10)

\* updatePerformanceMetrics
updatePerformanceMetrics(times, t) ==
  LET pushed == Append(times, t)
  IN IF Len(pushed) > PerformanceWindow THEN Tail(pushed) ELSE pushed

\* dropRate > 0.2 and dropRate < 0.05 for dropRate = dropped / (dropped + sent);
\* 0 / 0 is NaN, which compares false both ways, as these do
DropRateHigh(dropped, sent) == 5 * dropped > dropped + sent
DropRateLow(dropped, sent) == 20 * dropped < dropped + sent

\* the branch of adjustQualityIfNeeded taken once the interval has elapsed
ShouldDegrade(times, dropped, sent) ==
  DropRateHigh(dropped, sent) \/ AverageAbove(times, MIN_FRAME_INTERVAL, 1)

ShouldImprove(times, dropped, sent) ==
  /\ ~ShouldDegrade(times, dropped, sent)
  /\ DropRateLow(dropped, sent)
  /\ AverageBelow(times, MIN_FRAME_INTERVAL, 2)

\* fault: the degrade branch without its Math.max
DegradedUnclamped(q) ==
  [q EXCEPT !.jpegQuality = q.jpegQuality - DegradeQualityStep,
            !.width = q.width - DegradeWidthStep]

\* fault: the degrade branch lowers jpegQuality and leaves width
DegradedJpegQualityOnly(q) ==
  [q EXCEPT !.jpegQuality = Max(MIN_QUALITY, q.jpegQuality - DegradeQualityStep)]

\* fault: the improve branch without its Math.min
ImprovedUnclamped(q) ==
  [q EXCEPT !.jpegQuality = q.jpegQuality + ImproveQualityStep,
            !.width = q.width + ImproveWidthStep]

\* the first branch of adjustQualityIfNeeded
DegradedQuality(q) ==
  [q EXCEPT !.jpegQuality = Max(MIN_QUALITY, q.jpegQuality - DegradeQualityStep),
            !.width = Max(MIN_WIDTH, q.width - DegradeWidthStep)]

\* the second branch of adjustQualityIfNeeded
ImprovedQuality(q) ==
  [q EXCEPT !.jpegQuality = Min(MAX_QUALITY, q.jpegQuality + ImproveQualityStep),
            !.width = Min(MAX_WIDTH, q.width + ImproveWidthStep)]

\* adjustQualityIfNeeded: the quality it leaves, given whether the check
\* interval has elapsed
AdjustedQuality(q, due, times, dropped, sent) ==
  IF ~due THEN q
  ELSE IF ShouldDegrade(times, dropped, sent) THEN DegradedQuality(q)
  ELSE IF ShouldImprove(times, dropped, sent) THEN ImprovedQuality(q)
  ELSE q


(***************************************************************************)
(* State.  The first group are the fields of ScreenCaptureManager, the     *)
(* second the timers and promises it has outstanding in the event loop,    *)
(* the third the fields of the VSCodeVNCConnection of each client, and the *)
(* last records what has happened, for the properties.                     *)
(***************************************************************************)
VARIABLES
  isCapturing,           \* the loop is in the Capturing state
  subscribers,           \* the callbacks, in subscription order
  quality,               \* {width, jpegQuality, fps}
  cachedDimensions,      \* {width, height}
  processingFrame,       \* the encode guard
  lastFrameHash,         \* hash of the last accepted frame, or NullHash
  lastFrameSentRecently, \* now - lastFrameSentTime < MIN_FRAME_INTERVAL
  pendingFrames,         \* accepted frames awaiting processing
  coalesceTimer,         \* "null", or the state of the timeout it refers to
  frameProcessingTimes,  \* the performance window
  performanceCheckDue,   \* now - lastPerformanceCheck >= PERFORMANCE_CHECK_INTERVAL
  droppedFrames,
  framesSent,
  tickTimers,            \* armed setTimeout(captureFrame, ...) timeouts
  screenshots,           \* screenshot() calls not yet settled
  orphanTimers,          \* armed coalescing timeouts coalesceTimer no longer refers to
  procs,                 \* processFrame calls not yet settled
  wsState,               \* per client: "none", "open", "closing", "closed"
  unsubscribe,           \* per client: this.unsubscribe is not null
  captureCount,          \* the frames handed to handleNewFrame so far
  lastCapture,           \* <<content>> of the last frame handed to handleNewFrame
  stoppedSince,          \* stopCaptureLoop has run since lastCapture
  lastHandled,           \* what handleNewFrame did, if the last step ran it
  lastPublish,           \* the callback calls made, if the last step published
  lastRequest,           \* the quality-update and the settings it met, if the last step handled one
  lastFailure,           \* the failure, if the last step handled one
  lastCycle,             \* the settings adjustQualityIfNeeded met, if the last step ran a slow cycle
  released,              \* the clients whose unsubscribe closure has been called
  publishedId,           \* the id of the frame published last, 0 before the first
  cycles,                \* the slow adjustment cycles run so far
  calls,                 \* per client: its handleCommand, handleFileUpload and chatWithOpenAI calls not yet settled
  lastMessage,           \* the message or call outcome handled, if the last step handled one
  connections,           \* the store's websocket.connections, in the order they were added
  superseded,            \* the ids of the frames processCoalescedFrames discarded, if the last step ran it
  lastAdjustment, \* whether the last step ran an adjustment cycle
  tickPeriods,           \* the period each armed capture timeout was scheduled with
  publishedHash          \* in a run that tracks it: the hash of the frame delivered last since the loop last stopped

vars ==
  <<isCapturing, subscribers, quality, cachedDimensions, processingFrame,
    lastFrameHash, lastFrameSentRecently, pendingFrames, coalesceTimer,
    frameProcessingTimes, performanceCheckDue, droppedFrames, framesSent,
    tickTimers, screenshots, orphanTimers, procs, wsState, unsubscribe,
    captureCount, lastCapture, stoppedSince, lastHandled, lastPublish,
    lastRequest, lastFailure, lastCycle, released, publishedId, cycles,
    calls, lastMessage, connections, superseded, lastAdjustment,
    tickPeriods, publishedHash>>

\* the fields of ScreenCaptureManager and its armed timers
managerVars ==
  <<isCapturing, subscribers, quality, cachedDimensions, processingFrame,
    lastFrameHash, lastFrameSentRecently, pendingFrames, coalesceTimer,
    frameProcessingTimes, performanceCheckDue, droppedFrames, framesSent,
    tickTimers, orphanTimers>>

NoHandled == [ran |-> FALSE, repeat |-> FALSE, duplicate |-> FALSE,
              accepted |-> FALSE]
NoFrame == [id |-> 0, content |-> 0, repeat |-> FALSE, duplicate |-> FALSE]
NoPublish == [frame |-> NoFrame, previous |-> 0, subscribers |-> <<>>,
              calls |-> <<>>]
NoRequest == [handled |-> FALSE, request |-> <<>>, before |-> <<>>]
NoFailure == [kind |-> "none", wasCapturing |-> FALSE]
NoCycle == [ran |-> FALSE, before |-> <<>>]
NoMessage == [ran |-> FALSE, opcode |-> "none", text |-> <<>>, json |-> <<>>,
              target |-> "none", robot |-> <<>>, posted |-> <<>>,
              failed |-> FALSE, unhandledRejection |-> FALSE]

\* the state as one record, which the handlers below transform; lastHandled,
\* lastPublish and lastRequest describe one step only
St ==
  [isCapturing |-> isCapturing, subscribers |-> subscribers,
   quality |-> quality, cachedDimensions |-> cachedDimensions,
   processingFrame |-> processingFrame, lastFrameHash |-> lastFrameHash,
   lastFrameSentRecently |-> lastFrameSentRecently,
   pendingFrames |-> pendingFrames, coalesceTimer |-> coalesceTimer,
   frameProcessingTimes |-> frameProcessingTimes,
   performanceCheckDue |-> performanceCheckDue,
   droppedFrames |-> droppedFrames, framesSent |-> framesSent,
   tickTimers |-> tickTimers, screenshots |-> screenshots,
   orphanTimers |-> orphanTimers, procs |-> procs, wsState |-> wsState,
   unsubscribe |-> unsubscribe, captureCount |-> captureCount,
   lastCapture |-> lastCapture, stoppedSince |-> stoppedSince,
   lastHandled |-> NoHandled, lastPublish |-> NoPublish,
   lastRequest |-> NoRequest, lastFailure |-> NoFailure,
   lastCycle |-> NoCycle, released |-> released,
   publishedId |-> publishedId, cycles |-> cycles, calls |-> calls,
   lastMessage |-> NoMessage,
   connections |-> connections,
   superseded |-> {},
   lastAdjustment |-> FALSE,
   tickPeriods |-> tickPeriods,
   publishedHash |-> publishedHash]

\* publishedHash in a run that does not track it
Untracked == <<"untracked">>

\* publishedHash after the step that leaves the state st: no frame once the
\* loop is Idle, the hash of the frame the step delivered if it delivered one
Delivered(st) ==
  IF st.publishedHash = Untracked THEN Untracked
  ELSE IF ~st.isCapturing THEN NullHash
  ELSE IF st.lastPublish.calls # <<>>
    THEN calculateFrameHash(Screens[st.lastPublish.frame.content])
  ELSE st.publishedHash

\* the step that leaves the state st; a run takes at most MaxCaptures screenshots
Becomes(st) ==
  /\ st.captureCount + st.screenshots <= MaxCaptures
  /\ isCapturing' = st.isCapturing
  /\ subscribers' = st.subscribers
  /\ quality' = st.quality
  /\ cachedDimensions' = st.cachedDimensions
  /\ processingFrame' = st.processingFrame
  /\ lastFrameHash' = st.lastFrameHash
  /\ lastFrameSentRecently' = st.lastFrameSentRecently
  /\ pendingFrames' = st.pendingFrames
  /\ coalesceTimer' = st.coalesceTimer
  /\ frameProcessingTimes' = st.frameProcessingTimes
  /\ performanceCheckDue' = st.performanceCheckDue
  /\ droppedFrames' = st.droppedFrames
  /\ framesSent' = st.framesSent
  /\ tickTimers' = st.tickTimers
  /\ screenshots' = st.screenshots
  /\ orphanTimers' = st.orphanTimers
  /\ procs' = st.procs
  /\ wsState' = st.wsState
  /\ unsubscribe' = st.unsubscribe
  /\ captureCount' = st.captureCount
  /\ lastCapture' = st.lastCapture
  /\ stoppedSince' = st.stoppedSince
  /\ lastHandled' = st.lastHandled
  /\ lastPublish' = st.lastPublish
  /\ lastRequest' = st.lastRequest
  /\ lastFailure' = st.lastFailure
  /\ released' = st.released
  /\ publishedId' = st.publishedId
  /\ lastCycle' = st.lastCycle
  /\ cycles' = st.cycles
  /\ calls' = st.calls
  /\ lastMessage' = st.lastMessage
  /\ connections' = st.connections
  /\ superseded' = st.superseded
  /\ lastAdjustment' = st.lastAdjustment
  /\ tickPeriods' = st.tickPeriods
  /\ publishedHash' = Delivered(st)

\* the state after construction, but for publishedHash
Constructed ==
  /\ isCapturing = FALSE
  /\ subscribers = <<>>
  /\ quality = DefaultQuality
  /\ cachedDimensions = getScaledDimensions(DefaultQuality)
  /\ processingFrame = FALSE
  /\ lastFrameHash = NullHash
  /\ lastFrameSentRecently = FALSE
  /\ pendingFrames = <<>>
  /\ coalesceTimer = "null"
  /\ frameProcessingTimes = <<>>
  /\ performanceCheckDue = FALSE
  /\ droppedFrames = 0
  /\ framesSent = 0
  /\ tickTimers = 0
  /\ screenshots = 0
  /\ orphanTimers = 0
  /\ procs = <<>>
  /\ wsState = [c \in Conns |-> "none"]
  /\ unsubscribe = [c \in Conns |-> FALSE]
  /\ captureCount = 0
  /\ lastCapture = <<>>
  /\ stoppedSince = FALSE
  /\ lastHandled = NoHandled
  /\ lastPublish = NoPublish
  /\ lastRequest = NoRequest
  /\ lastFailure = NoFailure
  /\ released = {}
  /\ publishedId = 0
  /\ lastCycle = NoCycle
  /\ cycles = 0
  /\ calls = [c \in Conns |-> <<>>]
  /\ lastMessage = NoMessage
  /\ connections = <<>>
  /\ superseded = {}
  /\ lastAdjustment = FALSE
  /\ tickPeriods = <<>>

Init == Constructed /\ publishedHash = Untracked

(***************************************************************************)
(* ScreenCaptureManager.                                                   *)
(***************************************************************************)
\* fault: resetPerformanceMetrics leaves the processing-time window
resetCountersOnly(st) ==
  [st EXCEPT !.performanceCheckDue = FALSE,
             !.droppedFrames = 0,
             !.framesSent = 0]

\* resetPerformanceMetrics
resetPerformanceMetrics(st) ==
  [st EXCEPT !.frameProcessingTimes = <<>>,
             !.performanceCheckDue = FALSE,
             !.droppedFrames = 0,
             !.framesSent = 0]

\* stopCaptureLoop.  captureInterval is never assigned, so the first branch
\* clears nothing; clearTimeout cancels the timeout coalesceTimer refers to
\* and no other.
stopCaptureLoop(st) ==
  resetPerformanceMetrics(
    [st EXCEPT !.coalesceTimer = "null",
               !.isCapturing = FALSE,
               !.lastFrameHash = NullHash,
               !.pendingFrames = <<>>,
               !.stoppedSince = TRUE])

\* fault: no capture is attempted while a call of a client is pending
captureFrameUnlessBusy(st) ==
  IF ~st.isCapturing \/ \E c \in Conns : st.calls[c] # <<>> THEN st
  ELSE IF st.processingFrame \/ st.lastFrameSentRecently
       THEN [st EXCEPT !.droppedFrames = @ + 1]
       ELSE [st EXCEPT !.screenshots = @ + 1]

\* captureFrame, up to its first await
captureFrame(st) ==
  IF ~st.isCapturing THEN st
  ELSE IF st.processingFrame \/ st.lastFrameSentRecently
       THEN [st EXCEPT !.droppedFrames = @ + 1]
       ELSE [st EXCEPT !.screenshots = @ + 1]

\* startCaptureLoop
startCaptureLoop(st) ==
  IF st.isCapturing THEN st
  ELSE captureFrame([st EXCEPT !.isCapturing = TRUE])

\* subscribe, up to its return
subscribe(st, c) ==
  LET pushed == [st EXCEPT !.subscribers = Append(@, c)]
  IN IF ~pushed.isCapturing THEN startCaptureLoop(pushed) ELSE pushed

\* fault: the closure removes the callback and never stops the loop
unsubscribeWithoutStop(st, c) ==
  [st EXCEPT !.subscribers = Without(@, c), !.released = @ \cup {c}]

\* the closure subscribe returns
unsubscribeClosure(st, c) ==
  LET filtered == [st EXCEPT !.subscribers = Without(@, c),
                             !.released = @ \cup {c}]
  IN IF Len(filtered.subscribers) = 0 THEN stopCaptureLoop(filtered)
     ELSE filtered

\* the bytes calculateFrameHash samples are those of the frame captured before
SameSamples(content, previous) ==
  /\ previous # <<>>
  /\ \A i \in 0..(HashSamples - 1) :
       LET step == FrameLen \div HashSamples
       IN ByteAt(Screens[content], step \div 2 + i * step)
          = ByteAt(Screens[previous[1]], step \div 2 + i * step)

\* handleNewFrame(frame), for a screenshot showing Screens[content]
handleNewFrame(st, content) ==
  LET frameHash == calculateFrameHash(Screens[content])
      id == st.captureCount + 1
      repeat == SameSamples(content, st.lastCapture)
      frame == [id |-> id, content |-> content, repeat |-> repeat,
                duplicate |-> repeat /\ ~st.stoppedSince]
      seen == [st EXCEPT !.captureCount = id,
                         !.lastCapture = <<content>>,
                         !.stoppedSince = FALSE,
                         !.lastHandled = [ran |-> TRUE,
                                          repeat |-> frame.repeat,
                                          duplicate |-> frame.duplicate,
                                          accepted |-> FALSE]]
  IN IF frameHash = st.lastFrameHash
     THEN [seen EXCEPT !.droppedFrames = @ + 1]
     ELSE [seen EXCEPT !.lastFrameHash = frameHash,
                       !.lastHandled.accepted = TRUE,
                       !.pendingFrames = Append(@, frame),
                       !.coalesceTimer = IF @ = "null" THEN "armed" ELSE @]

\* the ids of the frames of a queue other than its last, which
\* processCoalescedFrames supersedes by taking the last
OlderIds(frames) == {frames[k].id : k \in 1..(Len(frames) - 1)}

\* fault: processCoalescedFrames without the processingFrame test
processCoalescedFramesUnguarded(st) ==
  IF Len(st.pendingFrames) = 0 THEN st
  ELSE LET frame == st.pendingFrames[Len(st.pendingFrames)]
       IN [st EXCEPT !.processingFrame = TRUE,
                     !.coalesceTimer = "null",
                     !.orphanTimers = IF st.coalesceTimer = "armed"
                                      THEN @ + 1 ELSE @,
                     !.pendingFrames = <<>>,
                     !.superseded = OlderIds(st.pendingFrames),
                     !.procs = Append(@, [frame |-> frame,
                                          stage |-> "createImage",
                                          width |-> 0, height |-> 0,
                                          quality |-> 0])]

\* fault: the frames older than the one taken stay pending
processCoalescedFramesKeepsOlder(st) ==
  IF Len(st.pendingFrames) = 0 \/ st.processingFrame THEN st
  ELSE LET frame == st.pendingFrames[Len(st.pendingFrames)]
       IN [st EXCEPT !.processingFrame = TRUE,
                     !.coalesceTimer = "null",
                     !.orphanTimers = IF st.coalesceTimer = "armed"
                                      THEN @ + 1 ELSE @,
                     !.pendingFrames = SubSeq(@, 1, Len(@) - 1),
                     !.superseded = OlderIds(st.pendingFrames),
                     !.procs = Append(@, [frame |-> frame,
                                          stage |-> "createImage",
                                          width |-> 0, height |-> 0,
                                          quality |-> 0])]

\* processCoalescedFrames, up to its first await (inside processFrame)
processCoalescedFrames(st) ==
  IF Len(st.pendingFrames) = 0 \/ st.processingFrame THEN st
  ELSE LET frame == st.pendingFrames[Len(st.pendingFrames)]
       IN [st EXCEPT !.processingFrame = TRUE,
                     !.coalesceTimer = "null",
                     !.orphanTimers = IF st.coalesceTimer = "armed"
                                      THEN @ + 1 ELSE @,
                     !.pendingFrames = <<>>,
                     !.superseded = OlderIds(st.pendingFrames),
                     !.procs = Append(@, [frame |-> frame,
                                          stage |-> "createImage",
                                          width |-> 0, height |-> 0,
                                          quality |-> 0])]

\* processFrame, from the createImage result to the getBuffer call
processFrame(st, i) ==
  [st EXCEPT !.procs[i] =
     [@ EXCEPT !.stage = "getBuffer",
               !.width = st.cachedDimensions.width,
               !.height = st.cachedDimensions.height,
               !.quality = IF detectHighMotion(st.frameProcessingTimes)
                           THEN Max(MIN_QUALITY,
                                    st.quality.jpegQuality - MotionQualityStep)
                           ELSE st.quality.jpegQuality]]

\* fault: the finally block arms no timer for the frames that arrived
\* during processing
finishProcessingWithoutTimer(st, i) ==
  [st EXCEPT !.processingFrame = FALSE,
             !.procs = SubSeq(@, 1, i - 1) \o SubSeq(@, i + 1, Len(@))]

\* the finally block of processCoalescedFrames, for the call procs[i]
finishProcessing(st, i) ==
  [st EXCEPT !.processingFrame = FALSE,
             !.procs = SubSeq(@, 1, i - 1) \o SubSeq(@, i + 1, Len(@)),
             !.coalesceTimer = IF Len(st.pendingFrames) > 0 THEN "armed" ELSE @,
             !.orphanTimers = IF Len(st.pendingFrames) > 0
                                 /\ st.coalesceTimer = "armed"
                              THEN @ + 1 ELSE @]

\* fault: adjustQualityIfNeeded leaves the cached dimensions as they were
adjustQualityKeepsDimensions(st) ==
  IF ~st.performanceCheckDue THEN st
  ELSE [st EXCEPT !.quality = AdjustedQuality(st.quality, TRUE,
                                              st.frameProcessingTimes,
                                              st.droppedFrames, st.framesSent),
                  !.performanceCheckDue = FALSE]

\* fault: adjustQualityIfNeeded without the test of the check interval
adjustQualityUnthrottled(st) ==
  LET q == AdjustedQuality(st.quality, TRUE, st.frameProcessingTimes,
                           st.droppedFrames, st.framesSent)
  IN [st EXCEPT !.quality = q,
                !.cachedDimensions = getScaledDimensions(q),
                !.performanceCheckDue = FALSE]

\* adjustQualityIfNeeded
adjustQualityIfNeeded(st) ==
  LET q == AdjustedQuality(st.quality, st.performanceCheckDue,
                           st.frameProcessingTimes, st.droppedFrames,
                           st.framesSent)
      adjusts == \/ ShouldDegrade(st.frameProcessingTimes, st.droppedFrames,
                                  st.framesSent)
                 \/ ShouldImprove(st.frameProcessingTimes, st.droppedFrames,
                                  st.framesSent)
  IN IF ~st.performanceCheckDue THEN st
     ELSE [st EXCEPT !.quality = q,
                     !.cachedDimensions = IF adjusts THEN getScaledDimensions(q)
                                          ELSE @,
                     !.performanceCheckDue = FALSE]

\* the callback of subscribeToFrameUpdates for client c: ws.send of the
\* screen-update envelope.  ws.send on a transport that is not open throws
\* nothing and transmits nothing.
frameCallback(st, c, image, dimensions) ==
  [st EXCEPT !.lastPublish.calls =
     Append(@, [to |-> c, image |-> image, dimensions |-> dimensions,
                open |-> st.wsState[c] = "open"])]

\* fault: only the first subscriber is called
notifyFirstSubscriber(st, cbs, image) ==
  IF cbs = <<>> THEN st
  ELSE frameCallback(st, Head(cbs), image, st.cachedDimensions)

\* this.subscribers.forEach((cb) => cb(processedFrame, this.cachedDimensions))
RECURSIVE notifySubscribers(_, _, _)
notifySubscribers(st, cbs, image) ==
  IF cbs = <<>> THEN st
  ELSE notifySubscribers(
         frameCallback(st, Head(cbs), image, st.cachedDimensions),
         Tail(cbs), image)

\* processCoalescedFrames from the processFrame result on, the encode of
\* procs[i] having taken processingTime
frameProcessed(st, i, processingTime) ==
  LET p == st.procs[i]
      image == [content |-> p.frame.content, width |-> p.width,
                height |-> p.height, quality |-> p.quality]
      measured == [st EXCEPT !.frameProcessingTimes =
                     updatePerformanceMetrics(@, processingTime)]
      counted == [adjustQualityIfNeeded(measured) EXCEPT
                     !.framesSent = @ + 1,
                     !.lastFrameSentRecently = TRUE,
                     !.publishedId = p.frame.id,
                     !.lastPublish = [frame |-> p.frame,
                                      previous |-> st.publishedId,
                                      subscribers |-> st.subscribers,
                                      calls |-> <<>>]]
  IN finishProcessing(notifySubscribers(counted, counted.subscribers, image), i)

\* this.subscribers.forEach(...) when the callback of thrower throws: the
\* callbacks before it have run, its own call has been made, and the
\* exception leaves forEach
RECURSIVE notifyUntilThrow(_, _, _, _)
notifyUntilThrow(st, cbs, image, thrower) ==
  IF cbs = <<>> THEN st
  ELSE IF Head(cbs) = thrower
    THEN frameCallback(st, Head(cbs), image, st.cachedDimensions)
  ELSE notifyUntilThrow(
         frameCallback(st, Head(cbs), image, st.cachedDimensions),
         Tail(cbs), image, thrower)

\* processCoalescedFrames from the processFrame result on, when the
\* callback of thrower throws: the catch logs and the finally block runs
frameProcessedCallbackThrows(st, i, processingTime, thrower) ==
  LET p == st.procs[i]
      image == [content |-> p.frame.content, width |-> p.width,
                height |-> p.height, quality |-> p.quality]
      measured == [st EXCEPT !.frameProcessingTimes =
                     updatePerformanceMetrics(@, processingTime)]
      counted == [adjustQualityIfNeeded(measured) EXCEPT
                     !.framesSent = @ + 1,
                     !.lastFrameSentRecently = TRUE,
                     !.publishedId = p.frame.id,
                     !.lastFailure = [kind |-> "callback",
                                      wasCapturing |-> st.isCapturing],
                     !.lastPublish = [frame |-> p.frame,
                                      previous |-> st.publishedId,
                                      subscribers |-> st.subscribers,
                                      calls |-> <<>>]]
  IN finishProcessing(
       notifyUntilThrow(counted, counted.subscribers, image, thrower), i)

\* fault: processingFrame is not cleared when processFrame throws
frameFailedWithoutFinally(st, i) ==
  [st EXCEPT !.procs = SubSeq(@, 1, i - 1) \o SubSeq(@, i + 1, Len(@)),
             !.lastFailure = [kind |-> "encode",
                              wasCapturing |-> st.isCapturing]]

\* fault: a frame whose encode failed is counted as sent
frameFailedButCounted(st, i) ==
  finishProcessing([st EXCEPT !.framesSent = @ + 1,
                              !.lastFrameSentRecently = TRUE,
                              !.lastFailure =
                                 [kind |-> "encode",
                                  wasCapturing |-> st.isCapturing]],
                   i)

\* processCoalescedFrames when processFrame throws
frameFailed(st, i) ==
  finishProcessing([st EXCEPT !.lastFailure =
                                 [kind |-> "encode",
                                  wasCapturing |-> st.isCapturing]],
                   i)

\* the bounds updateQualitySettings holds a field to
LowerBound(f) ==
  IF f = "width" THEN MIN_WIDTH
  ELSE IF f = "jpegQuality" THEN MIN_QUALITY
  ELSE MIN_FPS

UpperBound(f) ==
  IF f = "width" THEN MAX_WIDTH
  ELSE IF f = "jpegQuality" THEN MAX_QUALITY
  ELSE MAX_FPS

WithinBounds(f, v) == LowerBound(f) <= v /\ v <= UpperBound(f)

\* fault: updateQualitySettings without the range tests
updateQualitySettingsUnchecked(st, request) ==
  LET has(f) == f \in DOMAIN request
      width == IF has("width") /\ request["width"] # st.quality.width
               THEN request["width"] ELSE st.quality.width
      jpegQuality == IF /\ has("jpegQuality")
                        /\ request["jpegQuality"] # st.quality.jpegQuality
                     THEN request["jpegQuality"] ELSE st.quality.jpegQuality
      fps == IF has("fps") /\ request["fps"] # st.quality.fps
             THEN request["fps"] ELSE st.quality.fps
      q == [width |-> width, jpegQuality |-> jpegQuality, fps |-> fps]
      set == [st EXCEPT !.quality = q,
                        !.lastRequest = [handled |-> TRUE,
                                         request |-> request,
                                         before |-> st.quality],
                        !.cachedDimensions = IF width # st.quality.width
                                             THEN getScaledDimensions(q) ELSE @]
  IN IF q # st.quality THEN resetPerformanceMetrics(set) ELSE set

\* updateQualitySettings(request); a request is a function from the fields
\* it carries to their values
updateQualitySettings(st, request) ==
  LET has(f) == f \in DOMAIN request
      width == IF /\ has("width")
                  /\ request["width"] >= MIN_WIDTH
                  /\ request["width"] <= MAX_WIDTH
                  /\ request["width"] # st.quality.width
               THEN request["width"] ELSE st.quality.width
      jpegQuality == IF /\ has("jpegQuality")
                        /\ request["jpegQuality"] >= MIN_QUALITY
                        /\ request["jpegQuality"] <= MAX_QUALITY
                        /\ request["jpegQuality"] # st.quality.jpegQuality
                     THEN request["jpegQuality"] ELSE st.quality.jpegQuality
      fps == IF /\ has("fps")
                /\ request["fps"] >= MIN_FPS
                /\ request["fps"] <= MAX_FPS
                /\ request["fps"] # st.quality.fps
             THEN request["fps"] ELSE st.quality.fps
      q == [width |-> width, jpegQuality |-> jpegQuality, fps |-> fps]
      set == [st EXCEPT !.quality = q,
                        !.lastRequest = [handled |-> TRUE,
                                         request |-> request,
                                         before |-> st.quality],
                        !.cachedDimensions = IF width # st.quality.width
                                             THEN getScaledDimensions(q) ELSE @]
  IN IF q # st.quality THEN resetPerformanceMetrics(set) ELSE set

(***************************************************************************)
(* VSCodeVNCConnection and handleWebSocketConnection.                      *)
(***************************************************************************)
\* subscribeToFrameUpdates
subscribeToFrameUpdates(st, c) ==
  [subscribe(st, c) EXCEPT !.unsubscribe[c] = TRUE]

\* addWebSocketConnection(ws) of ./state/actions: the connection joins the list
addWebSocketConnection(st, c) == [st EXCEPT !.connections = Append(@, c)]

\* removeWebSocketConnection(ws) of ./state/actions: the list without it
removeWebSocketConnection(st, c) ==
  [st EXCEPT !.connections = SelectSeq(@, LAMBDA d : d # c)]

\* handleWebSocketConnection(ws): the store learns of the connection, then
\* the connection is constructed
handleWebSocketConnection(st, c) ==
  subscribeToFrameUpdates(
    addWebSocketConnection([st EXCEPT !.wsState[c] = "open"], c), c)

\* fault: dispose drops the handle without calling it
disposeWithoutUnsubscribe(st, c) == [st EXCEPT !.unsubscribe[c] = FALSE]

\* dispose
dispose(st, c) ==
  IF st.unsubscribe[c]
  THEN [unsubscribeClosure(st, c) EXCEPT !.unsubscribe[c] = FALSE]
  ELSE st

\* fault: the second "close" listener leaves the store alone
closeListenersWithoutRemove(st, c) ==
  dispose(dispose([st EXCEPT !.wsState[c] = "closed"], c), c)

\* the two "close" listeners of the socket, in registration order
closeListeners(st, c) ==
  removeWebSocketConnection(
    dispose(dispose([st EXCEPT !.wsState[c] = "closed"], c), c), c)

(***************************************************************************)
(* JavaScript strings, as sequences of characters.                         *)
(***************************************************************************)
UpperCase == <<"A", "B", "C", "D", "E", "F", "G", "H", "I", "J", "K", "L",
    "M", "N", "O", "P", "Q", "R", "S", "T", "U", "V", "W", "X", "Y", "Z">>
LowerCase == <<"a", "b", "c", "d", "e", "f", "g", "h", "i", "j", "k", "l",
    "m", "n", "o", "p", "q", "r", "s", "t", "u", "v", "w", "x", "y", "z">>
DecimalDigits == <<"0", "1", "2", "3", "4", "5", "6", "7", "8", "9">>

\* String.prototype.toLowerCase
LowerCaseOf ==
  [ch \in {UpperCase[k] : k \in 1..Len(UpperCase)} |->
     LowerCase[CHOOSE k \in 1..Len(UpperCase) : UpperCase[k] = ch]]
toLowerCase(s) ==
  [i \in 1..Len(s) |->
     IF s[i] \in DOMAIN LowerCaseOf THEN LowerCaseOf[s[i]] ELSE s[i]]

\* String.prototype.startsWith
startsWith(s, prefix) ==
  Len(prefix) <= Len(s) /\ SubSeq(s, 1, Len(prefix)) = prefix

\* Number.prototype.toString of an integer n >= 0
RECURSIVE Decimal(_)
Decimal(n) ==
  IF n < 10 THEN <<DecimalDigits[n + 1]>>
  ELSE Append(Decimal(n \div 10), DecimalDigits[(n % 10) + 1])

(***************************************************************************)
(* JavaScript numbers.  A positive IEEE 754 double is the record           *)
(* [bits, exp]: bits are the 53 bits of its significand, the most          *)
(* significant first, and the value is that 53-bit integer times 2^exp.    *)
(* Zero has no bits.  Results are rounded to nearest, ties to even, as the *)
(* operators / and * of the language round them.                           *)
(***************************************************************************)
SignificandBits == 53
Zero == [bits |-> <<>>, exp |-> 0]

RECURSIVE BinaryOf(_)
BinaryOf(n) == IF n = 0 THEN <<>> ELSE Append(BinaryOf(n \div 2), n % 2)

RECURSIVE IntegerOf(_)
IntegerOf(bits) ==
  IF bits = <<>> THEN 0
  ELSE 2 * IntegerOf(SubSeq(bits, 1, Len(bits) - 1)) + bits[Len(bits)]

\* the bits with one added at the last place, and the carry out of the first
AddOne(bits) ==
  LET zeros == {i \in 1..Len(bits) : bits[i] = 0}
      last == CHOOSE i \in zeros : \A j \in zeros : j <= i
  IN IF zeros = {} THEN [bits |-> [i \in 1..Len(bits) |-> 0], carry |-> 1]
     ELSE [bits |-> [i \in 1..Len(bits) |->
                       IF i < last THEN bits[i] ELSE IF i = last THEN 1 ELSE 0],
           carry |-> 0]

\* the double nearest to bits * 2^exp, more of the value following the bits
\* if sticky; bits start with a 1 and are at least SignificandBits long
RoundToDouble(bits, exp, sticky) ==
  LET extra == Len(bits) - SignificandBits
      kept == SubSeq(bits, 1, SignificandBits)
      rest == SubSeq(bits, SignificandBits + 1, Len(bits))
      half == extra > 0 /\ rest[1] = 1
      more == sticky \/ \E i \in 2..extra : rest[i] = 1
      up == half /\ (more \/ kept[SignificandBits] = 1)
      sum == AddOne(kept)
  IN IF ~up THEN [bits |-> kept, exp |-> exp + extra]
     ELSE IF sum.carry = 0 THEN [bits |-> sum.bits, exp |-> exp + extra]
     ELSE [bits |-> <<1>> \o SubSeq(sum.bits, 1, SignificandBits - 1),
           exp |-> exp + extra + 1]

\* long division: the bits of the quotient found so far, the last of weight
\* 2^exp, and the remainder r < d; one bit more than the significand is
\* produced, for the rounding
RECURSIVE QuotientBits(_, _, _, _)
QuotientBits(bits, exp, r, d) ==
  IF Len(bits) = SignificandBits + 1
    THEN RoundToDouble(bits, exp, r # 0)
    ELSE LET b == IF 2 * r >= d THEN 1 ELSE 0
         IN QuotientBits(IF bits = <<>> /\ b = 0 THEN bits ELSE Append(bits, b),
                         exp - 1, 2 * r - b * d, d)

\* x / d for integers x >= 0 and d > 0
Divide(x, d) ==
  IF x = 0 THEN Zero ELSE QuotientBits(BinaryOf(x \div d), 0, x % d, d)

\* the bits of bits * n: the bits from place i + 1 on are done and are out,
\* with carry into place i
RECURSIVE ProductBits(_, _, _, _, _)
ProductBits(bits, n, i, carry, out) ==
  IF i = 0 THEN BinaryOf(carry) \o out
  ELSE ProductBits(bits, n, i - 1, (bits[i] * n + carry) \div 2,
                   <<(bits[i] * n + carry) % 2>> \o out)

\* f * n for a double f >= 0 and an integer n > 0
Multiply(f, n) ==
  IF f.bits = <<>> THEN Zero
  ELSE RoundToDouble(ProductBits(f.bits, n, Len(f.bits), 0, <<>>), f.exp, FALSE)

\* Math.floor of a double f with 0 <= f < 2^31
MathFloor(f) ==
  IF Len(f.bits) + f.exp <= 0 THEN 0
  ELSE IntegerOf(SubSeq(f.bits, 1, Len(f.bits) + f.exp))

(***************************************************************************)
(* VSCodeVNCConnection: the dispatch of inbound messages.  The data of a   *)
(* message is the record [instance, opcode, text, json]: the class of the  *)
(* object the "message" listener receives, the opcode of the frame it came *)
(* in (which the listener does not look at), its characters, and what      *)
(* JSON.parse makes of them.  A call of handleCommand, handleFileUpload or *)
(* chatWithOpenAI stays in calls until it settles.                         *)
(***************************************************************************)
\* the keys of Commands: the names of editor commands
Commands ==
  {<<"T", "o", "g", "g", "l", "e", " ", "Z", "e", "n", " ", "M", "o", "d", "e">>,
   <<"F", "o", "r", "m", "a", "t", " ", "D", "o", "c", "u", "m", "e", "n", "t">>}

CommandPrefixes ==
  {<<"t", "y", "p", "e", " ">>,
   <<"k", "e", "y", "t", "a", "p", " ">>,
   <<"g", "o", " ", "t", "o", " ", "l", "i", "n", "e">>,
   <<"o", "p", "e", "n", " ", "f", "i", "l", "e">>,
   <<"s", "e", "a", "r", "c", "h">>,
   <<"r", "e", "p", "l", "a", "c", "e">>,
   <<"@", "c", "l", "i", "n", "e">>}

\* fault: isSupportedCommand compares the command as it was written
isSupportedCommandCaseSensitive(command) ==
  \/ command \in Commands
  \/ \E prefix \in CommandPrefixes : startsWith(command, prefix)

\* isSupportedCommand
isSupportedCommand(command) ==
  \/ toLowerCase(command) \in {toLowerCase(e) : e \in Commands}
  \/ \E prefix \in CommandPrefixes : startsWith(toLowerCase(command), prefix)

\* fault: the button is toggled before the pointer is moved
handleMouseEventToggleFirst(st, data) ==
  LET actualX == MathFloor(Multiply(Divide(data.x, data.screenWidth), ScreenWidth))
      actualY == MathFloor(Multiply(Divide(data.y, data.screenHeight), ScreenHeight))
      moveMouse == [call |-> "moveMouse", args |-> <<actualX, actualY>>]
      mouseToggle == [call |-> "mouseToggle", args |-> <<data.eventType, "left">>]
  IN [st EXCEPT !.lastMessage.target = "handleMouseEvent",
                !.lastMessage.robot =
                   IF data.eventType \in {"down", "up"}
                   THEN <<mouseToggle, moveMouse>> ELSE <<moveMouse>>]

\* handleMouseEvent: robot.moveMouse, then robot.mouseToggle for "down" and
\* "up"
handleMouseEvent(st, data) ==
  LET actualX == MathFloor(Multiply(Divide(data.x, data.screenWidth), ScreenWidth))
      actualY == MathFloor(Multiply(Divide(data.y, data.screenHeight), ScreenHeight))
      moveMouse == [call |-> "moveMouse", args |-> <<actualX, actualY>>]
      mouseToggle == [call |-> "mouseToggle", args |-> <<data.eventType, "left">>]
  IN [st EXCEPT !.lastMessage.target = "handleMouseEvent",
                !.lastMessage.robot =
                   IF data.eventType \in {"down", "up"}
                   THEN <<moveMouse, mouseToggle>> ELSE <<moveMouse>>]

\* handleKeyboardEvent: robot.keyTap, with the modifier if there is one
handleKeyboardEvent(st, data) ==
  [st EXCEPT !.lastMessage.target = "handleKeyboardEvent",
             !.lastMessage.robot =
                <<[call |-> "keyTap",
                   args |-> IF data.modifier # "" THEN <<data.key, data.modifier>>
                            ELSE <<data.key>>]>>]

\* await target(...): the call is made and the handler waits for it; inTry
\* tells whether the call is inside a try block whose catch makes a call,
\* and frames how many frames had been captured when the call was made
startCall(st, c, target, data, inTry) ==
  [st EXCEPT !.calls[c] = Append(@, [target |-> target, opcode |-> data.opcode,
                                     text |-> data.text, inTry |-> inTry,
                                     frames |-> st.captureCount]),
             !.lastMessage.target = target]

\* handleBufferMessage, default case and catch: a command, or else a file
handleCommandOrFile(st, c, data, inTry) ==
  IF isSupportedCommand(data.text)
  THEN startCall(st, c, "handleCommand", data, inTry)
  ELSE startCall(st, c, "handleFileUpload", data, inTry)

\* handleBufferMessage; reading the type of null throws inside the try block
handleBufferMessage(st, c, data) ==
  LET parsedMessage == data.json
  IN IF parsedMessage.kind \in {"SyntaxError", "null"}
       THEN handleCommandOrFile(st, c, data, FALSE)
     ELSE IF parsedMessage.type = "mouse-event"
       THEN handleMouseEvent(st, parsedMessage.body)
     ELSE IF parsedMessage.type = "keyboard-event"
       THEN handleKeyboardEvent(st, parsedMessage.body)
     ELSE IF parsedMessage.type = "quality-update"
       THEN [updateQualitySettings(st, parsedMessage.body)
               EXCEPT !.lastMessage.target = "updateQualitySettings"]
     ELSE handleCommandOrFile(st, c, data, TRUE)

\* handleStringMessage
handleStringMessage(st, c, data) ==
  LET parsedMessage == data.json
  IN IF parsedMessage.kind \notin {"SyntaxError", "null"}
          /\ parsedMessage.type = "quality-update"
       THEN [updateQualitySettings(st, parsedMessage.body)
               EXCEPT !.lastMessage.target = "updateQualitySettings"]
       ELSE startCall(st, c, "chatWithOpenAI", data, TRUE)

\* setupWebSocketHandlers, the "message" listener
onMessage(st, c, data) ==
  LET seen == [st EXCEPT !.lastMessage =
                 [NoMessage EXCEPT !.ran = TRUE, !.opcode = data.opcode,
                                   !.text = data.text, !.json = data.json]]
  IN IF data.instance = "Buffer" THEN handleBufferMessage(seen, c, data)
     ELSE IF data.instance = "string" THEN handleStringMessage(seen, c, data)
     ELSE seen

\* the call k of client c, taken out of calls
settled(st, c, k) ==
  LET call == st.calls[c][k]
  IN [st EXCEPT !.calls[c] = SubSeq(@, 1, k - 1) \o SubSeq(@, k + 1, Len(@)),
                !.lastMessage = [NoMessage EXCEPT !.opcode = call.opcode,
                                                  !.text = call.text,
                                                  !.target = call.target]]

\* the continuation of the await when the call k of client c resolves: the
\* reply of chatWithOpenAI is posted to the webview panel, if there is one
callResolved(st, c, k) ==
  IF st.calls[c][k].target = "chatWithOpenAI"
  THEN [settled(st, c, k) EXCEPT !.lastMessage.posted = <<[type |-> "chatResponse"]>>]
  ELSE settled(st, c, k)

\* the continuation of the await when the call k of client c rejects: the
\* catch of handleStringMessage posts an error to the webview panel, if there
\* is one; the catch of handleBufferMessage classifies the message again; a
\* call made in that catch rejects the promise of the listener
callRejected(st, c, k) ==
  LET call == st.calls[c][k]
      failed == [settled(st, c, k) EXCEPT !.lastMessage.failed = TRUE]
  IN IF call.target = "chatWithOpenAI"
       THEN [failed EXCEPT !.lastMessage.posted = <<[type |-> "error"]>>]
     ELSE IF call.inTry
       THEN handleCommandOrFile(failed, c, call, FALSE)
     ELSE [failed EXCEPT !.lastMessage.unhandledRejection = TRUE]


(***************************************************************************)
(* The environment's inputs.                                               *)
(***************************************************************************)
\* durations of one processFrame call, in ms: well under the frame budget,
\* and over it
ProcessingTimes == [fast |-> 10, slow |-> 40]

\* the values a quality-update carries: one out of range and one in range
\* for each field
WidthInputs == {1000, 1280}
JpegQualityInputs == {50, 88}
FpsInputs == {60, 1000}
QualityFields == {"width", "jpegQuality", "fps"}
InputsOf(f) ==
  IF f = "width" THEN WidthInputs
  ELSE IF f = "jpegQuality" THEN JpegQualityInputs
  ELSE FpsInputs

\* the quality-update messages: one field or all three, exactly one field
\* of each message being out of range
Requests ==
  UNION {{r \in [D -> WidthInputs \cup JpegQualityInputs \cup FpsInputs] :
            /\ \A f \in D : r[f] \in InputsOf(f)
            /\ Cardinality({f \in D : ~WithinBounds(f, r[f])}) = 1} :
           D \in {E \in SUBSET QualityFields : Cardinality(E) \in {1, 3}}}

\* the inbound payloads that are not JSON
TextPayloads ==
  {<<"e", "x", "p", "l", "a", "i", "n", " ", "t", "h", "i", "s", " ", "f", "u", "n", "c", "t", "i", "o", "n">>,
   <<"F", "O", "R", "M", "A", "T", " ", "D", "O", "C", "U", "M", "E", "N", "T">>,
   <<"F", "o", "r", "m", "a", "t", " ", "D", "o", "c", "u", "m", "e", "n", "t", "s">>,
   <<"T", "y", "p", "e", " ", "h", "e", "l", "l", "o">>,
   <<"r", "e", "t", "y", "p", "e">>}

\* the mouse events: the pointer of the client and the size of its view
MouseXs == {0, 123, 960}
MouseYs == {39, 540}
ClientSizes == {<<1920, 1080>>, <<390, 844>>}
MouseEvents ==
  {[x |-> x, y |-> y, eventType |-> t, screenWidth |-> s[1],
    screenHeight |-> s[2]] :
     x \in MouseXs, y \in MouseYs, t \in {"down", "up", "move"},
     s \in ClientSizes}

KeyboardEvents == {[key |-> "a", modifier |-> ""], [key |-> "c", modifier |-> "control"]}

\* the JSON values clients send: null, a number, and objects with a type
JsonValue(kind, type, body) == [kind |-> kind, type |-> type, body |-> body]
StructuredValues ==
  {JsonValue("null", "", <<>>), JsonValue("number", "", 42),
   JsonValue("object", "ping", <<>>)}
    \cup {JsonValue("object", "keyboard-event", e) : e \in KeyboardEvents}
    \cup {JsonValue("object", "quality-update", r) :
            r \in {q \in Requests : DOMAIN q = {"fps"}}}
MouseValues == {JsonValue("object", "mouse-event", e) : e \in MouseEvents}

\* JSON.stringify of these values
Quoted(s) == <<"\"">> \o s \o <<"\"">>
TypeMember == <<"\"", "t", "y", "p", "e", "\"", ":">>
TypeName(type) ==
  CASE type = "ping" -> <<"p", "i", "n", "g">>
    [] type = "mouse-event" -> <<"m", "o", "u", "s", "e", "-", "e", "v", "e", "n", "t">>
    [] type = "keyboard-event" -> <<"k", "e", "y", "b", "o", "a", "r", "d", "-", "e", "v", "e", "n", "t">>
    [] type = "quality-update" -> <<"q", "u", "a", "l", "i", "t", "y", "-", "u", "p", "d", "a", "t", "e">>
Word(w) ==
  CASE w = "down" -> <<"d", "o", "w", "n">>
    [] w = "up" -> <<"u", "p">>
    [] w = "move" -> <<"m", "o", "v", "e">>
    [] w = "a" -> <<"a">>
    [] w = "c" -> <<"c">>
    [] w = "control" -> <<"c", "o", "n", "t", "r", "o", "l">>
    [] w = "" -> <<>>
Member(name, value) == <<",">> \o Quoted(name) \o <<":">> \o value
MembersOf(type, body) ==
  CASE type = "ping" -> <<>>
    [] type = "mouse-event" ->
         Member(<<"x">>, Decimal(body.x))
           \o Member(<<"y">>, Decimal(body.y))
           \o Member(<<"e", "v", "e", "n", "t", "T", "y", "p", "e">>, Quoted(Word(body.eventType)))
           \o Member(<<"s", "c", "r", "e", "e", "n", "W", "i", "d", "t", "h">>, Decimal(body.screenWidth))
           \o Member(<<"s", "c", "r", "e", "e", "n", "H", "e", "i", "g", "h", "t">>, Decimal(body.screenHeight))
    [] type = "keyboard-event" ->
         Member(<<"k", "e", "y">>, Quoted(Word(body.key)))
           \o (IF body.modifier = "" THEN <<>>
               ELSE Member(<<"m", "o", "d", "i", "f", "i", "e", "r">>, Quoted(Word(body.modifier))))
    [] type = "quality-update" ->
         (IF "width" \in DOMAIN body
          THEN Member(<<"w", "i", "d", "t", "h">>, Decimal(body["width"])) ELSE <<>>)
           \o (IF "jpegQuality" \in DOMAIN body
               THEN Member(<<"j", "p", "e", "g", "Q", "u", "a", "l", "i", "t", "y">>, Decimal(body["jpegQuality"]))
               ELSE <<>>)
           \o (IF "fps" \in DOMAIN body
               THEN Member(<<"f", "p", "s">>, Decimal(body["fps"])) ELSE <<>>)
JSONstringify(value) ==
  CASE value.kind = "null" -> <<"n", "u", "l", "l">>
    [] value.kind = "number" -> Decimal(value.body)
    [] value.kind = "object" ->
         <<"{">> \o TypeMember \o Quoted(TypeName(value.type))
           \o MembersOf(value.type, value.body) \o <<"}">>

\* a payload: its characters and what JSON.parse makes of them
PayloadsOf(texts, values) ==
  {[text |-> t, json |-> JsonValue("SyntaxError", "", <<>>)] : t \in texts}
    \cup {[text |-> JSONstringify(v), json |-> v] : v \in values}
Opcodes == {"text", "binary"}

\* the receiver of ws hands the listener a Buffer for a text frame and for a
\* binary frame alike
Received(opcode, payload) ==
  [instance |-> "Buffer", opcode |-> opcode, text |-> payload.text,
   json |-> payload.json]

(***************************************************************************)
(* Steps.                                                                  *)
(***************************************************************************)
\* a client connects; clients are numbered in the order they connect
Connect(c) ==
  /\ wsState[c] = "none"
  /\ \A d \in Conns : d < c => wsState[d] # "none"
  /\ Becomes(handleWebSocketConnection(St, c))

\* nextInterval of captureFrame: Math.max(MIN_FRAME_INTERVAL, 1000 / fps), as
\* the fraction <<numerator, denominator>> of milliseconds
nextInterval(fps) ==
  IF 1000 > MIN_FRAME_INTERVAL * fps THEN <<1000, fps>>
  ELSE <<MIN_FRAME_INTERVAL, 1>>

\* a capture timeout fires
CaptureTick ==
  /\ tickTimers > 0
  /\ \E period \in {tickPeriods[k] : k \in DOMAIN tickPeriods} :
       LET k == CHOOSE n \in DOMAIN tickPeriods : tickPeriods[n] = period
       IN Becomes(captureFrame(
            [St EXCEPT !.tickTimers = @ - 1,
                       !.tickPeriods = SubSeq(@, 1, k - 1)
                                       \o SubSeq(@, k + 1, Len(@))]))

\* screenshot() resolves: handleNewFrame runs and the next tick is scheduled
ScreenshotResolves(content) ==
  /\ screenshots > 0
  /\ Becomes([handleNewFrame([St EXCEPT !.screenshots = @ - 1], content)
                EXCEPT !.tickTimers = @ + 1,
                       !.tickPeriods = Append(@, nextInterval(quality.fps))])

\* screenshot() rejects: the error is logged and the next tick is scheduled
ScreenshotRejects ==
  /\ screenshots > 0
  /\ Becomes([St EXCEPT !.screenshots = @ - 1, !.tickTimers = @ + 1,
                        !.tickPeriods = Append(@, nextInterval(quality.fps)),
                        !.lastFailure = [kind |-> "capture",
                                         wasCapturing |-> isCapturing]])

\* the timeout coalesceTimer refers to fires
CoalesceTimerFires ==
  /\ coalesceTimer = "armed"
  /\ Becomes(processCoalescedFrames([St EXCEPT !.coalesceTimer = "fired"]))

\* a coalescing timeout that coalesceTimer no longer refers to fires
OrphanTimerFires ==
  /\ orphanTimers > 0
  /\ Becomes(processCoalescedFrames([St EXCEPT !.orphanTimers = @ - 1]))

\* jimp.createImage resolves
CreateImageResolves(i) ==
  /\ i \in DOMAIN procs
  /\ procs[i].stage = "createImage"
  /\ Becomes(processFrame(St, i))

\* image.getBuffer resolves
GetBufferResolves(i, processingTime) ==
  /\ i \in DOMAIN procs
  /\ procs[i].stage = "getBuffer"
  /\ Becomes(frameProcessed(St, i, processingTime))

\* jimp.createImage or image.getBuffer rejects
ProcessFrameRejects(i) ==
  /\ i \in DOMAIN procs
  /\ Becomes(frameFailed(St, i))

\* image.getBuffer resolves and the callback of subscriber c throws
CallbackThrows(i, c) ==
  /\ i \in DOMAIN procs
  /\ procs[i].stage = "getBuffer"
  /\ \E k \in DOMAIN subscribers : subscribers[k] = c
  /\ Becomes(frameProcessedCallbackThrows(St, i, ProcessingTimes.fast, c))

\* the transport of a client stops being open (readyState CLOSING); its
\* "close" event is emitted in a later turn
TransportCloses(c) ==
  /\ wsState[c] = "open"
  /\ Becomes([St EXCEPT !.wsState[c] = "closing"])

\* the "close" event of a client's socket
CloseEvent(c) ==
  /\ wsState[c] \in {"open", "closing"}
  /\ Becomes(closeListeners(St, c))

\* a quality-update message arrives from a client
QualityUpdate(request) ==
  /\ \E c \in Conns : wsState[c] = "open"
  /\ Becomes(updateQualitySettings(St, request))

\* MIN_FRAME_INTERVAL has passed since the last publish
MinFrameIntervalElapses ==
  /\ lastFrameSentRecently
  /\ Becomes([St EXCEPT !.lastFrameSentRecently = FALSE])

\* PERFORMANCE_CHECK_INTERVAL has passed since lastPerformanceCheck
PerformanceCheckIntervalElapses ==
  /\ ~performanceCheckDue
  /\ Becomes([St EXCEPT !.performanceCheckDue = TRUE])

\* the setInterval callback of setupPerformanceMonitoring
PerformanceMonitorTick ==
  /\ isCapturing
  /\ Becomes([St EXCEPT !.droppedFrames = 0, !.framesSent = 0])

\* a caller invokes the closure that subscribe returned for c
UnsubscribeCall(c) ==
  /\ wsState[c] # "none"
  /\ Becomes(unsubscribeClosure(St, c))

\* a frame with the payload arrives from client c
Message(c, opcode, payload) ==
  /\ wsState[c] = "open"
  /\ LET st == onMessage(St, c, Received(opcode, payload))
     IN Len(st.calls[c]) <= MaxCalls /\ Becomes(st)

\* a call of client c resolves
CallResolves(c) ==
  \E k \in 1..Len(calls[c]) : Becomes(callResolved(St, c, k))

\* a call of client c rejects
CallRejects(c) ==
  \E k \in 1..Len(calls[c]) : Becomes(callRejected(St, c, k))

(***************************************************************************)
(* Specifications.  All of them run the same handlers; they differ in what *)
(* the environment does.                                                   *)
(***************************************************************************)
\* the capture loop: its timers, the screenshot, which shows one of contents,
\* and the encode, which is fast
CaptureLoop(contents) ==
  \/ CaptureTick
  \/ \E content \in contents : ScreenshotResolves(content)
  \/ CoalesceTimerFires
  \/ OrphanTimerFires
  \/ \E i \in DOMAIN procs : CreateImageResolves(i)
  \/ \E i \in DOMAIN procs : GetBufferResolves(i, ProcessingTimes.fast)
  \/ MinFrameIntervalElapses
  \/ PerformanceMonitorTick

\* the screenshot or the encode fails
Failures ==
  \/ ScreenshotRejects
  \/ \E i \in DOMAIN procs : ProcessFrameRejects(i)

\* ScreenA and ScreenC, for the runs in which the screen shows two contents
QualityContents == {1, 3}

\* Clients connect and disconnect while the loop runs.  No client sends a
\* quality-update and no run outlasts PERFORMANCE_CHECK_INTERVAL, so the
\* quality settings stay as constructed.
Next ==
  \/ CaptureLoop(Contents)
  \/ Failures
  \/ \E c \in Conns : Connect(c)
  \/ \E c \in Conns : TransportCloses(c)
  \/ \E c \in Conns : CloseEvent(c)

Spec == Init /\ [][Next]_vars

\* The manager's interface: besides the connections, any caller may invoke a
\* closure that subscribe returned, at any time and any number of times.
\* The screen shows ScreenA or ScreenC.
NextApi ==
  \/ CaptureLoop(QualityContents)
  \/ Failures
  \/ \E c \in Conns : Connect(c)
  \/ \E c \in Conns : CloseEvent(c)
  \/ \E c \in Conns : UnsubscribeCall(c)

SpecApi == Init /\ [][NextApi]_vars

\* One client, which stays connected and sends quality-updates, while the
\* check interval elapses again and again and encodes are fast or slow.  The
\* screen shows ScreenA or ScreenC, and nothing fails.
QualityClients == {1}

NextQuality ==
  \/ CaptureLoop(QualityContents)
  \/ \E c \in QualityClients : Connect(c)
  \/ \E i \in DOMAIN procs : GetBufferResolves(i, ProcessingTimes.slow)
  \/ \E request \in Requests : QualityUpdate(request)
  \/ PerformanceCheckIntervalElapses

SpecQuality == Init /\ [][NextQuality]_vars

\* The same with the quality-updates that change the settings only: those
\* that carry all three fields, two of them within bounds.
ChangingRequests == {r \in Requests : DOMAIN r = QualityFields}

NextChange ==
  \/ CaptureLoop(QualityContents)
  \/ \E c \in QualityClients : Connect(c)
  \/ \E i \in DOMAIN procs : GetBufferResolves(i, ProcessingTimes.slow)
  \/ \E request \in ChangingRequests : QualityUpdate(request)
  \/ PerformanceCheckIntervalElapses

SpecChange == Init /\ [][NextChange]_vars

\* The capture loop with a client that lowers fps to 10, which lengthens
\* the tick period from 33 ms to 100 ms.
FpsRequests == {[f \in {"fps"} |-> 10]}

NextFps ==
  \/ CaptureLoop(QualityContents)
  \/ \E c \in QualityClients : Connect(c)
  \/ \E request \in FpsRequests : QualityUpdate(request)

SpecFps == Init /\ [][NextFps]_vars

\* adjustQualityIfNeeded on its own: the settings start anywhere within
\* their bounds, every encode is slow and every call finds the check interval
\* elapsed.
StartWidths == {MIN_WIDTH, MIN_WIDTH + 1, DefaultWidth - 1, DefaultWidth, MAX_WIDTH}
StartJpegQualities == MIN_QUALITY..MAX_QUALITY

InitDegrade ==
  \E w \in StartWidths, j \in StartJpegQualities :
    LET q == [width |-> w, jpegQuality |-> j, fps |-> DefaultFps]
    IN /\ quality = q
       /\ cachedDimensions = getScaledDimensions(q)
       /\ isCapturing = FALSE
       /\ subscribers = <<>>
       /\ processingFrame = FALSE
       /\ lastFrameHash = NullHash
       /\ lastFrameSentRecently = FALSE
       /\ pendingFrames = <<>>
       /\ coalesceTimer = "null"
       /\ frameProcessingTimes = <<>>
       /\ performanceCheckDue = FALSE
       /\ droppedFrames = 0
       /\ framesSent = 0
       /\ tickTimers = 0
       /\ screenshots = 0
       /\ orphanTimers = 0
       /\ procs = <<>>
       /\ wsState = [c \in Conns |-> "none"]
       /\ unsubscribe = [c \in Conns |-> FALSE]
       /\ captureCount = 0
       /\ lastCapture = <<>>
       /\ stoppedSince = FALSE
       /\ lastHandled = NoHandled
       /\ lastPublish = NoPublish
       /\ lastRequest = NoRequest
       /\ lastFailure = NoFailure
       /\ lastCycle = NoCycle
       /\ released = {}
       /\ publishedId = 0
       /\ cycles = 0
       /\ calls = [c \in Conns |-> <<>>]
       /\ lastMessage = NoMessage
       /\ connections = <<>>
       /\ superseded = {}
       /\ lastAdjustment = FALSE
       /\ tickPeriods = <<>>
       /\ publishedHash = Untracked

\* updatePerformanceMetrics(slow); adjustQualityIfNeeded(), the interval
\* having elapsed
SlowCycle ==
  /\ cycles < MaxCycles
  /\ Becomes([adjustQualityIfNeeded(
                [St EXCEPT !.frameProcessingTimes =
                             updatePerformanceMetrics(@, ProcessingTimes.slow),
                           !.performanceCheckDue = TRUE])
                EXCEPT !.cycles = @ + 1,
                       !.lastCycle = [ran |-> TRUE, before |-> quality]])

SpecDegrade == InitDegrade /\ [][SlowCycle]_vars

\* The adaptive adjustment on its own, in every regime: cycles of
\* updatePerformanceMetrics and adjustQualityIfNeeded with the check interval
\* elapsed, for encodes of any of three durations and for the counters as
\* the capture loop may have left them since the monitor last reset them.
AdjustWidths == {MIN_WIDTH + 1, DefaultWidth, MAX_WIDTH}
AdjustJpegQualities == {MIN_QUALITY + 2, DefaultJpegQuality, MAX_QUALITY}
AdjustTimes == {10, 20, 40}
\* <<droppedFrames, framesSent>>: none counted, no drop, one in ten, one in four
AdjustCounters == {<<0, 0>>, <<0, 4>>, <<1, 9>>, <<1, 3>>}

InitAdjust ==
  /\ InitDegrade
  /\ quality.width \in AdjustWidths
  /\ quality.jpegQuality \in AdjustJpegQualities

\* updatePerformanceMetrics(t); adjustQualityIfNeeded(), the interval having
\* elapsed
AdjustCycle(t, counters) ==
  /\ cycles < MaxAdjustments
  /\ Becomes([adjustQualityIfNeeded(
                [St EXCEPT !.frameProcessingTimes =
                             updatePerformanceMetrics(@, t),
                           !.droppedFrames = counters[1],
                           !.framesSent = counters[2],
                           !.performanceCheckDue = TRUE])
                EXCEPT !.cycles = @ + 1,
                       !.lastAdjustment = TRUE])

NextAdjust ==
  \E t \in AdjustTimes, counters \in AdjustCounters : AdjustCycle(t, counters)

SpecAdjust == InitAdjust /\ [][NextAdjust]_vars

\* the dispatcher on its own: one client sends messages, the calls they
\* start settle, and no timer of the capture loop fires
DispatchClients == {1}
DispatchPayloads == PayloadsOf(TextPayloads, StructuredValues)

NextDispatch ==
  \/ \E c \in DispatchClients : Connect(c)
  \/ \E c \in DispatchClients : CloseEvent(c)
  \/ \E c \in DispatchClients, opcode \in Opcodes, payload \in DispatchPayloads :
       Message(c, opcode, payload)
  \/ \E c \in DispatchClients : CallResolves(c)
  \/ \E c \in DispatchClients : CallRejects(c)

SpecDispatch == Init /\ [][NextDispatch]_vars

\* the mouse events on their own
MousePayloads == PayloadsOf({}, MouseValues)

NextMouse ==
  \/ \E c \in Conns : Connect(c)
  \/ \E c \in DispatchClients, opcode \in Opcodes, payload \in MousePayloads :
       Message(c, opcode, payload)

SpecMouse == Init /\ [][NextMouse]_vars

\* the capture loop while one client has a command or a file call pending;
\* the client sends its next message when the call has settled
CallPayloads ==
  PayloadsOf({<<"T", "y", "p", "e", " ", "h", "e", "l", "l", "o">>,
              <<"e", "x", "p", "l", "a", "i", "n", " ", "t", "h", "i", "s", " ", "f", "u", "n", "c", "t", "i", "o", "n">>}, {})

NextCalls ==
  \/ CaptureLoop(QualityContents)
  \/ \E c \in Conns : Connect(c)
  \/ \E c \in DispatchClients, payload \in CallPayloads :
       calls[c] = <<>> /\ Message(c, "binary", payload)
  \/ \E c \in DispatchClients : CallResolves(c)
  \/ \E c \in DispatchClients : CallRejects(c)

SpecCalls == Init /\ [][NextCalls]_vars

\* The capture loop with publishedHash tracked, while clients connect and
\* disconnect; the screen shows ScreenA or ScreenC and nothing fails.
InitRepeat == Constructed /\ publishedHash = NullHash

NextRepeat ==
  \/ CaptureLoop(QualityContents)
  \/ \E c \in Conns : Connect(c)
  \/ \E c \in Conns : CloseEvent(c)

SpecRepeat == InitRepeat /\ [][NextRepeat]_vars

\* The capture loop with subscribers whose callback may throw.
NextThrow ==
  \/ CaptureLoop(QualityContents)
  \/ \E c \in Conns : Connect(c)
  \/ \E i \in DOMAIN procs, c \in Conns : CallbackThrows(i, c)

SpecThrow == Init /\ [][NextThrow]_vars

\* The capture loop of one client that stays connected, with encodes that
\* may fail.
NextLive ==
  \/ CaptureLoop(QualityContents)
  \/ Failures
  \/ \E c \in QualityClients : Connect(c)

\* a callback the event loop has ready, or will have once a delay has
\* passed: a coalescing timer, or the end of createImage or of getBuffer,
\* which settle one way or the other
Progress ==
  \/ CoalesceTimerFires
  \/ OrphanTimerFires
  \/ \E i \in DOMAIN procs :
       \/ CreateImageResolves(i)
       \/ GetBufferResolves(i, ProcessingTimes.fast)
       \/ ProcessFrameRejects(i)

\* the event loop does not leave such callbacks waiting forever: while there
\* are some, one of them runs (which asks less than that each of them runs)
SpecLive == Init /\ [][NextLive]_vars /\ WF_vars(Progress)

(***************************************************************************)
(* Properties.                                                             *)
(***************************************************************************)
\* C1: after any sequence of subscribe and unsubscribe calls, the loop is in
\* the Capturing state if and only if the subscriber set is non-empty
\* (SpecApi).
C1_CapturingIffSubscribed == isCapturing <=> subscribers # <<>>

\* C1, its case: a closure has been called and a subscriber remains, so the
\* loop is still capturing.
C1_Witness == released # {} /\ subscribers # <<>> /\ isCapturing

\* C2: when the subscriber count goes 0 -> 1 the loop starts, when it goes
\* back to 0 the loop stops, and after that step no timer of the loop (capture
\* tick timer or coalescing timer) remains armed (Spec).
C2_StartStopNoResidualTimer ==
  [][/\ (subscribers = <<>> /\ subscribers' # <<>>)
          => (~isCapturing /\ isCapturing')
     /\ (subscribers # <<>> /\ subscribers' = <<>>)
          => /\ isCapturing /\ ~isCapturing'
             /\ tickTimers' = 0
             /\ orphanTimers' = 0
             /\ coalesceTimer' # "armed"]_vars

\* C3: in every reachable state, whatever the interleaving of quality-updates
\* and adaptive adjustments, each field of the quality settings is within its
\* bounds: width in [MIN_WIDTH, MAX_WIDTH], jpegQuality in [MIN_QUALITY,
\* MAX_QUALITY], fps in [1, 60] (SpecQuality).
C3_QualityWithinBounds ==
  /\ MIN_WIDTH <= quality.width /\ quality.width <= MAX_WIDTH
  /\ MIN_QUALITY <= quality.jpegQuality /\ quality.jpegQuality <= MAX_QUALITY
  /\ MIN_FPS <= quality.fps /\ quality.fps <= MAX_FPS

\* C3, its case: an adaptive adjustment has brought jpegQuality down to its
\* lower bound, which no request asks for, and a request has set fps.
C3_Witness ==
  /\ quality.jpegQuality = MIN_QUALITY
  /\ quality.width < DefaultWidth
  /\ quality.fps \in FpsInputs

\* C4: for every quality-update, each field outside its bounds leaves the
\* stored field as it was, and each field of the same request within its
\* bounds is applied (SpecQuality).
C4_OutOfBoundsFieldsIgnored ==
  lastRequest.handled =>
    \A f \in QualityFields :
      quality[f] = IF /\ f \in DOMAIN lastRequest.request
                      /\ WithinBounds(f, lastRequest.request[f])
                   THEN lastRequest.request[f]
                   ELSE lastRequest.before[f]

\* C4, its case: the request just handled carried fps out of range and the
\* other two fields in range, after an adaptive adjustment had moved the
\* settings; fps is as it was, width and jpegQuality are as requested.
C4_Witness ==
  /\ lastRequest.handled
  /\ DOMAIN lastRequest.request = QualityFields
  /\ ~WithinBounds("fps", lastRequest.request["fps"])
  /\ lastRequest.before.width \notin WidthInputs \cup {DefaultWidth}
  /\ quality.fps = lastRequest.before.fps
  /\ quality.width = lastRequest.request["width"]
  /\ quality.jpegQuality = lastRequest.request["jpegQuality"]

C6_AllSubscribersSameFrame ==
  lastPublish.frame.id # 0 =>
    /\ Len(lastPublish.calls) = Len(lastPublish.subscribers)
    /\ \A k \in DOMAIN lastPublish.calls :
         /\ lastPublish.calls[k].to = lastPublish.subscribers[k]
         /\ lastPublish.calls[k].image = lastPublish.calls[1].image
         /\ lastPublish.calls[k].dimensions = lastPublish.calls[1].dimensions

\* C6, its case: a frame has just been published to two subscribers or more.
C6_Witness == lastPublish.frame.id # 0 /\ Len(lastPublish.calls) >= 2

\* C7: once the close event of a connection has been handled, no publish
\* calls that connection's callback, however many others stay subscribed
\* (Spec).
C7_NoCallbackAfterClose ==
  \A c \in Conns :
    wsState[c] = "closed" =>
      \A k \in DOMAIN lastPublish.calls : lastPublish.calls[k].to # c

\* C7, its case: a frame has just been published to a subscriber while
\* another connection is closed.
C7_Witness ==
  /\ \E c \in Conns : wsState[c] = "closed"
  /\ lastPublish.calls # <<>>

\* C8: every write of a screen-update to a connection happens while that
\* connection's transport is open (Spec).
C8_WritesOnlyToOpenTransport ==
  \A k \in DOMAIN lastPublish.calls : lastPublish.calls[k].open

\* C9: calling the closure subscribe returned for a client a second or later
\* time changes no state of the manager: subscribers, Capturing/Idle, timers,
\* frame state, performance counters (SpecApi).
C9_RepeatedUnsubscribeNoOp ==
  [][\A c \in Conns :
       (c \in released /\ UnsubscribeCall(c)) => UNCHANGED managerVars]_vars

\* C10: at most one encode is in progress at any time, and processingFrame
\* is true while it is (Spec).
C10_OneEncodeAtATime ==
  /\ Len(procs) <= 1
  /\ procs # <<>> => processingFrame

\* C10, its case: the coalescing timer fired while an encode was in progress
\* with a frame pending, and no second encode began.
C10_Witness ==
  /\ procs # <<>>
  /\ pendingFrames # <<>>
  /\ coalesceTimer = "fired"

\* C11: every subscriber receives frames in the order in which they were
\* captured: the frame a publish delivers was captured after the frame the
\* publish before it delivered (Spec).
C11_PublishedInCaptureOrder ==
  lastPublish.frame.id # 0 => lastPublish.frame.id > lastPublish.previous

\* C11, its case: a second frame has just been delivered to a subscriber.
C11_Witness == lastPublish.previous # 0 /\ lastPublish.calls # <<>>

\* C12: while the loop is Capturing a capture is scheduled or under way, so
\* that after every tick, a skipped one included, a later tick attempts a
\* capture (Spec).
C12_CapturingKeepsTicking ==
  isCapturing => (tickTimers > 0 \/ screenshots > 0)

\* C13: the last unsubscription leaves no pending frame, no frame hash and
\* no armed coalescing timer, and none is created while the loop is Idle, so
\* that nothing captured in one activation reaches the next (Spec).
C13_IdleHoldsNoFrameState ==
  ~isCapturing =>
    /\ pendingFrames = <<>>
    /\ lastFrameHash = NullHash
    /\ coalesceTimer # "armed"
    /\ orphanTimers = 0

\* C14: a failed screenshot or a failed encode leaves the loop in the state,
\* Capturing or Idle, it was in; after a failed screenshot the next tick is
\* scheduled; after a failed encode processingFrame is false and the frames
\* that arrived meanwhile have a timer armed to process them (Spec).
C14_FailureNotFatal ==
  /\ lastFailure.kind # "none" => isCapturing = lastFailure.wasCapturing
  /\ lastFailure.kind = "capture" => tickTimers > 0
  /\ lastFailure.kind = "encode" =>
       /\ ~processingFrame
       /\ pendingFrames # <<>> => coalesceTimer = "armed"

\* C14, its case: an encode has just failed while the loop is Capturing, and
\* a frame captured during that encode is pending with its timer armed.
C14_Witness ==
  /\ lastFailure.kind = "encode"
  /\ isCapturing
  /\ ~processingFrame
  /\ pendingFrames # <<>>
  /\ coalesceTimer = "armed"

\* C15: with the average processing time above the degrade threshold at
\* every adjustment cycle, jpegQuality and width never increase from one
\* cycle to the next, strictly decrease while above their minimums, are never
\* below the minimums, and are exactly MIN_QUALITY and MIN_WIDTH once enough
\* cycles have run to cover the whole range (SpecDegrade).
C15_DegradesToTheMinimums ==
  /\ quality.jpegQuality >= MIN_QUALITY
  /\ quality.width >= MIN_WIDTH
  /\ lastCycle.ran =>
       /\ quality.jpegQuality <= lastCycle.before.jpegQuality
       /\ quality.width <= lastCycle.before.width
       /\ lastCycle.before.jpegQuality > MIN_QUALITY
            => quality.jpegQuality < lastCycle.before.jpegQuality
       /\ lastCycle.before.width > MIN_WIDTH
            => quality.width < lastCycle.before.width
  /\ cycles * DegradeQualityStep >= MAX_QUALITY - MIN_QUALITY
       => quality.jpegQuality = MIN_QUALITY
  /\ cycles * DegradeWidthStep >= MAX_WIDTH - MIN_WIDTH
       => quality.width = MIN_WIDTH

\* C15, its case: starting from the maximums, the cycle that has just run
\* brought width from above MIN_WIDTH down to it, jpegQuality being at
\* MIN_QUALITY already.
C15_Witness ==
  /\ lastCycle.ran
  /\ cycles * DegradeWidthStep >= MAX_WIDTH - MIN_WIDTH
  /\ lastCycle.before.width > MIN_WIDTH
  /\ lastCycle.before.jpegQuality = MIN_QUALITY
  /\ quality.width = MIN_WIDTH
  /\ quality.jpegQuality = MIN_QUALITY

\* C16: a text frame whose payload is not a JSON object of type
\* quality-update is handed to chatWithOpenAI, and never to handleCommand or
\* handleFileUpload; one whose payload is such an object is handed to
\* updateQualitySettings (SpecDispatch).
C16_TextGoesToChat ==
  lastMessage.ran /\ lastMessage.opcode = "text" =>
    IF lastMessage.json.kind = "object" /\ lastMessage.json.type = "quality-update"
    THEN lastMessage.target = "updateQualitySettings"
    ELSE lastMessage.target = "chatWithOpenAI"

\* C17: a binary frame whose payload does not parse, or parses to a value
\* without one of the three known types, is handed to handleCommand if it
\* is the name of a registry command or begins with a command prefix, the
\* case of letters aside, and to handleFileUpload with its bytes otherwise
\* (SpecDispatch).
C17_BinaryCommandOrFile ==
  /\ lastMessage.ran
  /\ lastMessage.opcode = "binary"
  /\ lastMessage.json.type \notin {"mouse-event", "keyboard-event", "quality-update"}
  => LET text == lastMessage.text
         same(a, b) ==
           a = b \/ \E k \in 1..Len(UpperCase) : {a, b} = {UpperCase[k], LowerCase[k]}
         begins(prefix) ==
           /\ Len(prefix) <= Len(text)
           /\ \A i \in 1..Len(prefix) : same(prefix[i], text[i])
         command ==
           \/ \E name \in Commands : Len(name) = Len(text) /\ begins(name)
           \/ \E prefix \in CommandPrefixes : begins(prefix)
     IN /\ lastMessage.target = IF command THEN "handleCommand" ELSE "handleFileUpload"
        /\ \E c \in Conns :
             /\ calls[c] # <<>>
             /\ calls[c][Len(calls[c])].target = lastMessage.target
             /\ calls[c][Len(calls[c])].text = text

\* C17, its case: a binary frame that spells a registry command in other
\* letter case has been handed to handleCommand.
C17_Witness ==
  /\ lastMessage.ran
  /\ lastMessage.opcode = "binary"
  /\ lastMessage.text \notin Commands
  /\ \E name \in Commands : toLowerCase(name) = toLowerCase(lastMessage.text)
  /\ lastMessage.target = "handleCommand"

\* C18: a mouse event with positive client dimensions moves the pointer to
\* the floor of x / screenWidth * hostWidth and of y / screenHeight *
\* hostHeight (SpecMouse).
C18_PointerAtScaledFloor ==
  lastMessage.target = "handleMouseEvent" =>
    LET event == lastMessage.json.body
        moved == lastMessage.robot[1]
    IN /\ moved.call = "moveMouse"
       /\ moved.args[1] * event.screenWidth <= event.x * ScreenWidth
       /\ event.x * ScreenWidth < (moved.args[1] + 1) * event.screenWidth
       /\ moved.args[2] * event.screenHeight <= event.y * ScreenHeight
       /\ event.y * ScreenHeight < (moved.args[2] + 1) * event.screenHeight

C20_PendingCallDoesNotBlock ==
  /\ [](lastPublish.frame.id # 0 /\ (\E c \in Conns : calls[c] # <<>>) =>
          \A k \in DOMAIN lastPublish.subscribers :
            \E j \in DOMAIN lastPublish.calls :
              lastPublish.calls[j].to = lastPublish.subscribers[k])
  /\ [][/\ CaptureTick
        /\ \E c \in Conns : calls[c] # <<>>
        /\ isCapturing /\ ~processingFrame /\ ~lastFrameSentRecently
        => screenshots' = screenshots + 1]_vars
  /\ [][calls' # calls =>
          UNCHANGED <<managerVars, procs, screenshots, captureCount>>]_vars

\* C20, its case: a frame captured after a client made a call that is still
\* pending has just been published to that client and to another.
C20_Witness ==
  /\ Len(lastPublish.calls) >= 2
  /\ \E c \in Conns :
       /\ calls[c] # <<>>
       /\ lastPublish.frame.id > calls[c][1].frames
       /\ \E j \in DOMAIN lastPublish.calls : lastPublish.calls[j].to = c


(***************************************************************************)
(* The store's connection list.                                            *)
(***************************************************************************)
\* the clients that have connected and whose "close" event has not been
\* handled yet
ConnectedClients == {c \in Conns : wsState[c] \in {"open", "closing"}}

\* C21: the store's connection list holds exactly the connections that were
\* connected and not yet closed, each of them once
C21_ListHoldsTheConnected ==
  /\ {connections[k] : k \in DOMAIN connections} = ConnectedClients
  /\ Len(connections) = Cardinality(ConnectedClients)

\* a client has connected and closed while a later one is still connected
C21_Witness ==
  /\ wsState[1] = "closed"
  /\ connections = <<2>>

(***************************************************************************)
(* The dimensions a frame is published with.                               *)
(***************************************************************************)
\* C22: the dimensions passed to every subscriber with a frame are the
\* dimensions that frame was resized and encoded at
C22_DimensionsAreTheEncodedOnes ==
  \A k \in DOMAIN lastPublish.calls :
    /\ lastPublish.calls[k].dimensions.width = lastPublish.calls[k].image.width
    /\ lastPublish.calls[k].dimensions.height = lastPublish.calls[k].image.height

(***************************************************************************)
(* Coalescing.                                                             *)
(***************************************************************************)
\* the ids of the frames held: pending, or being encoded
HeldIds ==
  {pendingFrames[k].id : k \in DOMAIN pendingFrames}
    \cup {procs[i].frame.id : i \in DOMAIN procs}

\* C23: of several frames accepted before the coalescing timer fires only
\* the one captured last is processed and published.  The step that starts
\* an encode takes the newest pending frame and leaves none pending, so the
\* older ones are held nowhere; a frame that is no longer held is never
\* held again, the only frame a step adds being the one just captured; and
\* a frame is delivered only out of its encode.  The frame captured last is
\* never among those dropped.
C23_OnlyTheNewestIsProcessed ==
  /\ [][Len(procs') > Len(procs) =>
          /\ procs'[Len(procs')].frame = pendingFrames[Len(pendingFrames)]
          /\ pendingFrames' = <<>>
          /\ superseded' = OlderIds(pendingFrames)
          /\ HeldIds' = HeldIds \ superseded']_vars
  /\ [][HeldIds' \subseteq HeldIds \cup {captureCount'}]_vars
  /\ [][lastPublish'.frame.id # 0 =>
          \E i \in DOMAIN procs : procs[i].frame = lastPublish'.frame]_vars
  /\ [](captureCount \notin superseded)

\* the coalescing timer has fired with frames 1 and 2 pending: the encode of
\* frame 2 has started and frame 1 is gone
C23_Witness ==
  /\ superseded = {1}
  /\ procs # <<>>
  /\ procs[Len(procs)].frame.id = 2
  /\ pendingFrames = <<>>

\* C24: in every reachable state the capture loop holds at most one pending
\* raw frame
C24_AtMostOnePendingFrame == Len(pendingFrames) <= 1

\* the coalescing timeouts armed and not yet fired or cleared
ArmedCoalescingTimers ==
  (IF coalesceTimer = "armed" THEN 1 ELSE 0) + orphanTimers

\* C25: at most one coalescing timer is armed at any time
C25_AtMostOneCoalescingTimer == ArmedCoalescingTimers <= 1

\* C26: a frame accepted when MIN_FRAME_INTERVAL has passed since the last
\* publish, and no encode is running, is processed at once (its encode
\* starts in the step that accepts it); one accepted sooner is left pending
\* behind the coalescing timer
C26_ProcessedAtOnceWhenIntervalElapsed ==
  [][lastHandled'.accepted =>
       IF ~lastFrameSentRecently /\ ~processingFrame
       THEN /\ Len(procs') = Len(procs) + 1
            /\ pendingFrames' = <<>>
       ELSE /\ Len(procs') = Len(procs)
            /\ coalesceTimer' # "null"]_vars

(***************************************************************************)
(* The adaptive adjustment.                                                *)
(***************************************************************************)
\* C27: the adaptive algorithm changes the settings at most once per
\* PERFORMANCE_CHECK_INTERVAL: it changes them only when the interval has
\* passed since the last check, and every change of the settings, adaptive
\* or asked for by a client, starts the interval anew
C27_OneAdjustmentPerInterval ==
  [][quality' # quality =>
       /\ ~performanceCheckDue'
       /\ ~lastRequest'.handled => performanceCheckDue]_vars

\* a frame is published with an adaptive degrade of the width a client had
\* asked for, the interval having passed since the client's change
C27_Witness ==
  /\ lastPublish.frame.id # 0
  /\ quality.width = 1280 - DegradeWidthStep
  /\ ~performanceCheckDue

\* C28: each adaptive adjustment does exactly one of three things.  It
\* degrades, when the average processing time is above MIN_FRAME_INTERVAL or
\* more than a fifth of the frames counted were dropped: jpegQuality and
\* width each step down, not below their minimum.  Else it improves, when
\* the average is below half of MIN_FRAME_INTERVAL and frames were counted,
\* fewer than a twentieth of them dropped: each steps up, not above its
\* maximum.  Else it changes nothing.  The degrade steps are larger than the
\* improve steps.
C28_DegradeImproveOrNothing ==
  /\ [](/\ DegradeQualityStep > ImproveQualityStep
         /\ DegradeWidthStep > ImproveWidthStep)
  /\ [][lastAdjustment' =>
          LET times == frameProcessingTimes'
              counted == droppedFrames' + framesSent'
              slow == \/ Sum(times) > MIN_FRAME_INTERVAL * Len(times)
                      \/ 5 * droppedFrames' > counted
              good == /\ 2 * Sum(times) < MIN_FRAME_INTERVAL * Len(times)
                      /\ counted > 0
                      /\ 20 * droppedFrames' < counted
              lower(x, step, least) == IF x - step < least THEN least ELSE x - step
              raise(x, step, most) == IF x + step > most THEN most ELSE x + step
          IN /\ quality'.fps = quality.fps
             /\ cachedDimensions'.width = quality'.width
             /\ IF slow
                THEN /\ quality'.jpegQuality =
                          lower(quality.jpegQuality, DegradeQualityStep, MIN_QUALITY)
                     /\ quality'.width =
                          lower(quality.width, DegradeWidthStep, MIN_WIDTH)
                ELSE IF good
                THEN /\ quality'.jpegQuality =
                          raise(quality.jpegQuality, ImproveQualityStep, MAX_QUALITY)
                     /\ quality'.width =
                          raise(quality.width, ImproveWidthStep, MAX_WIDTH)
                ELSE /\ quality'.jpegQuality = quality.jpegQuality
                     /\ quality'.width = quality.width]_vars

\* an improvement after a degrade that met both minimums: the first cycle
\* found one frame in four dropped, the second none
C28_Witness ==
  /\ lastAdjustment
  /\ cycles = 2
  /\ droppedFrames = 0
  /\ framesSent > 0
  /\ quality = [width |-> MIN_WIDTH + ImproveWidthStep,
                jpegQuality |-> MIN_QUALITY + ImproveQualityStep,
                fps |-> DefaultFps]

(***************************************************************************)
(* Quality updates.                                                        *)
(***************************************************************************)
\* C29: a quality-update that changes a field leaves, in the same turn and
\* so before any frame is processed, the cached dimensions computed from
\* the new width, the processing-time window empty and framesSent and
\* droppedFrames at 0
C29_ChangeResetsHistory ==
  [][lastRequest'.handled /\ quality' # quality =>
       /\ cachedDimensions'.width = quality'.width
       /\ cachedDimensions'.height =
            (quality'.width * ScreenHeight) \div ScreenWidth
       /\ frameProcessingTimes' = <<>>
       /\ framesSent' = 0
       /\ droppedFrames' = 0]_vars

\* a quality-update has changed the width after a frame had been published:
\* the window and the counters it found were not empty
C29_Witness ==
  /\ lastRequest.handled
  /\ publishedId # 0
  /\ lastRequest.before.width # quality.width
  /\ frameProcessingTimes = <<>>
  /\ framesSent = 0
  /\ cachedDimensions.width = quality.width

\* C30: a quality-update that changes fps while the loop is Capturing
\* restarts the loop's timer, so that the tick armed after it waits the new
\* period max(MIN_FRAME_INTERVAL, 1000 / fps); the subscribers and the
\* Capturing state stay as they were
C30_FpsChangeRestartsTimer ==
  [][lastRequest'.handled /\ quality'.fps # quality.fps /\ isCapturing =>
       /\ \A k \in DOMAIN tickPeriods' :
            tickPeriods'[k] = nextInterval(quality'.fps)
       /\ subscribers' = subscribers
       /\ isCapturing']_vars

(***************************************************************************)
(* The cached dimensions.                                                  *)
(***************************************************************************)
\* C31: in every reachable state the cached target dimensions are
\* (width, floor(width * screenHeight / screenWidth)) for the width stored
\* now: the height follows every change of the width, by a client's request
\* or by an adaptive adjustment, and is set in no other way
C31_DimensionsFollowTheWidth ==
  /\ cachedDimensions.width = quality.width
  /\ cachedDimensions.height * ScreenWidth <= quality.width * ScreenHeight
  /\ quality.width * ScreenHeight < (cachedDimensions.height + 1) * ScreenWidth

\* an adaptive degrade has lowered the width a client had asked for, and the
\* cached height is that of the lowered width
C31_Witness ==
  /\ lastRequest = NoRequest
  /\ quality.width = 1280 - DegradeWidthStep
  /\ cachedDimensions = [width |-> 1152, height |-> 648]

(***************************************************************************)
(* Failures of the encode.                                                 *)
(***************************************************************************)
\* C32: when the encode of a frame fails, no subscriber callback is called
\* for that frame, and framesSent, the time and the size recorded for the
\* last frame sent (those of frame publishedId) and the processing-time
\* window are left as they were
C32_FailedEncodeLeavesNoTrace ==
  [][lastFailure'.kind = "encode" =>
       /\ lastPublish' = NoPublish
       /\ framesSent' = framesSent
       /\ lastFrameSentRecently' = lastFrameSentRecently
       /\ publishedId' = publishedId
       /\ frameProcessingTimes' = frameProcessingTimes]_vars

\* the encode of the second frame has just failed, the first having been
\* sent to a subscriber that is still registered
C32_Witness ==
  /\ lastFailure.kind = "encode"
  /\ subscribers # <<>>
  /\ publishedId = 1
  /\ captureCount = 2
  /\ framesSent = 1
  /\ frameProcessingTimes # <<>>

(***************************************************************************)
(* Mouse events.                                                           *)
(***************************************************************************)
\* C33: for a mouse-event of eventType "down" or "up" the robot is first
\* told to move the pointer to the position the coordinates map to (within
\* the pixel that the rounding of the division may cost) and then, once, to
\* toggle the left button to that state; for eventType "move" it is told to
\* move the pointer and nothing else
C33_MoveThenOneToggle ==
  lastMessage.target = "handleMouseEvent" =>
    LET event == lastMessage.json.body
        told == lastMessage.robot
    IN /\ told # <<>>
       /\ told[1].call = "moveMouse"
       /\ told[1].args[1] * event.screenWidth <= event.x * ScreenWidth
       /\ event.x * ScreenWidth < (told[1].args[1] + 2) * event.screenWidth
       /\ told[1].args[2] * event.screenHeight <= event.y * ScreenHeight
       /\ event.y * ScreenHeight < (told[1].args[2] + 2) * event.screenHeight
       /\ event.eventType \in {"down", "up"} =>
            /\ Len(told) = 2
            /\ told[2] = [call |-> "mouseToggle",
                           args |-> <<event.eventType, "left">>]
       /\ event.eventType = "move" => Len(told) = 1

\* a client has released the button in the middle of its view
C33_Witness ==
  /\ lastMessage.target = "handleMouseEvent"
  /\ lastMessage.json.body.eventType = "up"
  /\ lastMessage.json.body.x = 960
  /\ lastMessage.robot = <<[call |-> "moveMouse", args |-> <<960, 540>>],
                           [call |-> "mouseToggle", args |-> <<"up", "left">>]>>

(***************************************************************************)
(* The tick chain.                                                         *)
(***************************************************************************)
\* C34: at any time at most one capture tick chain (an armed capture timer
\* or a capture in flight) exists, whatever the sequence of subscriptions
\* and unsubscriptions.  A chain alive is either waiting in its setTimeout
\* or waiting for its screenshot
C34_AtMostOneTickChain == tickTimers + screenshots <= 1

(***************************************************************************)
(* Handler calls per payload.                                              *)
(***************************************************************************)
\* C35: for a binary payload at most one call of handleCommand or
\* handleFileUpload is made in all: the step that receives it starts at most
\* one call, and the step that handles the failure of that call starts none
C35_AtMostOneHandlerCall ==
  [][/\ lastMessage'.ran /\ lastMessage'.opcode = "binary" =>
          \A c \in Conns : Len(calls'[c]) <= Len(calls[c]) + 1
     /\ lastMessage'.failed /\ lastMessage'.opcode = "binary" =>
          \A c \in Conns : Len(calls'[c]) < Len(calls[c]) \/ calls'[c] = calls[c]]_vars

(***************************************************************************)
(* Duplicates.                                                             *)
(***************************************************************************)
\* the hash handleNewFrame computes for a frame of the model
HashOf(frame) == calculateFrameHash(Screens[frame.content])

\* C36: a captured frame is dropped as a duplicate only of a frame that was
\* published or is pending and will be published.  A capture is dropped
\* when its hash is lastFrameHash, so a frame whose encode fails must not
\* stay the reference: the step that handles the failure leaves
\* lastFrameHash other than the hash of the failed frame, unless a frame
\* with that hash is pending
C36_FailedFrameIsNoReference ==
  [][lastFailure'.kind = "encode" =>
       \A i \in DOMAIN procs :
         lastFrameHash' = HashOf(procs[i].frame) =>
           \E k \in DOMAIN pendingFrames' :
             HashOf(pendingFrames'[k]) = HashOf(procs[i].frame)]_vars

\* C37: no two frames published one after the other have the same sample
\* hash: a frame delivered to the subscribers never has the hash of the
\* frame delivered before it in the same activation of the loop
C37_NoRepeatedPublish ==
  [][lastPublish'.calls # <<>> =>
       HashOf(lastPublish'.frame) # publishedHash]_vars

(***************************************************************************)
(* Failures of a callback.                                                 *)
(***************************************************************************)
\* C38: when the callback of one subscriber throws while a frame is
\* published, the callback of every other subscriber registered is still
\* called with that frame
C38_OthersStillReceive ==
  lastFailure.kind = "callback" =>
    \A k \in DOMAIN lastPublish.subscribers :
      \E j \in DOMAIN lastPublish.calls :
        lastPublish.calls[j].to = lastPublish.subscribers[k]

(***************************************************************************)
(* Progress of the pending frames.                                         *)
(***************************************************************************)
\* C39: while the loop is Capturing, a frame accepted as pending is in the
\* end taken for encoding or superseded by a newer one that is taken, and a
\* frame taken is published or dropped because its encode failed.  Frames
\* are never pending with neither an encode running, whose end arms a
\* timer, nor a coalescing timer armed; pending frames leave the queue in
\* the end, and leave it only taken or superseded; an encode ends, and ends
\* only in a publish or in a failure
C39_PendingIsProcessed ==
  /\ [](pendingFrames # <<>> /\ ~processingFrame => ArmedCoalescingTimers > 0)
  /\ [](processingFrame => procs # <<>>)
  /\ [][\A k \in DOMAIN pendingFrames :
          \/ \E j \in DOMAIN pendingFrames' :
               pendingFrames'[j].id = pendingFrames[k].id
          \/ \E i \in DOMAIN procs' : procs'[i].frame.id = pendingFrames[k].id
          \/ pendingFrames[k].id \in superseded']_vars
  /\ [][\A i \in DOMAIN procs :
          \/ \E j \in DOMAIN procs' : procs'[j].frame.id = procs[i].frame.id
          \/ lastPublish'.frame.id = procs[i].frame.id
          \/ lastFailure'.kind = "encode"]_vars
  /\ (pendingFrames # <<>>) ~> (pendingFrames = <<>>)
  /\ (procs # <<>>) ~> (procs = <<>>)

\* a frame that arrived during an encode is pending and its timer has fired
\* without effect: no timer is armed, and the end of the encode will arm one
C39_Witness ==
  /\ isCapturing
  /\ {pendingFrames[k].id : k \in DOMAIN pendingFrames} = {2}
  /\ {procs[i].frame.id : i \in DOMAIN procs} = {1}
  /\ ArmedCoalescingTimers = 0

(***************************************************************************)
(* The drop rate.                                                          *)
(***************************************************************************)
\* C40: whenever adjustQualityIfNeeded computes the drop rate
\* droppedFrames / (droppedFrames + framesSent), which it does for every
\* frame encoded once the check interval has passed, the denominator is
\* greater than zero
C40_DropRateDefined ==
  [][performanceCheckDue /\ lastPublish'.frame.id # 0 =>
       droppedFrames + framesSent > 0]_vars
=============================================================================
